---- MODULE Spec2Model ----
(***************************************************************************)
(* Verification model of the infinitiV scene pipeline.                     *)
(*                                                                         *)
(*   SpecAsm   : ScriptGenerator._structure_as_json, the timeline          *)
(*               assembler (src/agents/script_generator.py)                *)
(*   SpecVoice : VoiceGenerator.generate_voices, one run over one script   *)
(*               (src/agents/voice_generator.py)                           *)
(*   SpecConc  : two pipeline runs resolving a voice through the one       *)
(*               shared VoiceGenerator (src/app.py:29)                     *)
(*   SpecRerun : generate_voices called twice on one script and one        *)
(*               directory                                                 *)
(*   SpecRender: one pipeline run, generate_voices then                    *)
(*               SceneRenderer.render_scene                                *)
(*               (src/agents/scene_renderer.py)                            *)
(*   SpecSanitize: calls of SceneRenderer._sanitize_name                   *)
(*   SpecPlayer: the player script of the HTML preview                     *)
(*               (SceneRenderer._create_html_preview)                      *)
(*   SpecGen   : ScriptGenerator.generate_script, its three generation     *)
(*               stages and the assembler                                  *)
(*   SpecShared: two runs of the full pipeline (src/app.py) and the files  *)
(*               they write                                                *)
(*   SpecInvalidate: a generate_voices run with regenerate_voice and       *)
(*               delete_all_custom_voices called between its blocks        *)
(*   SpecPlayerFair: SpecPlayer with every armed timer firing              *)
(*   SpecDescribe: calls of VoiceGenerator._build_voice_description        *)
(***************************************************************************)
EXTENDS Integers, Sequences, FiniteSets, TLC

VARIABLES
    \* ---- _structure_as_json -------------------------------------------
    dialogue,            \* argument: the dialogue stream
    actions,             \* argument: the action stream
    structured_script,   \* the list being built / returned
    dialogue_index,
    action_index,
    loop_i,              \* the variable i of "for i in range(max_items * 2)"
    asm_pc,              \* "loop" | "done" | "idle"
    \* ---- VoiceGenerator ------------------------------------------------
    elevenlabs_client,   \* self.elevenlabs_client is not None
    elevenlabs_key,      \* self.elevenlabs_key is set
    voice_cache,         \* self.voice_cache: key -> voice id
    script,              \* argument of generate_voices
    character_voice_map, \* the session map of one generate_voices run
    audio_files,         \* the map generate_voices builds
    returned,            \* the value generate_voices returned
    files,               \* the file system: path -> what was written
    requests,            \* creation requests the collaborator has received
    voice_log,           \* what each processed dialogue block went through
    vpos,                \* index of the block the loop is at
    vpc,                 \* "run" | "returned" | "idle"
    \* ---- two concurrent runs on the shared VoiceGenerator ---------------
    rblock,              \* per run: the dialogue block it is resolving
    rpc,                 \* per run: where it is in the resolution
    rvoice,              \* per run: the local variable voice_id
    rreq,                \* per run: which of the requests is its own (0: none)
    \* ---- a second generate_voices call on the same VoiceGenerator --------
    first_run,           \* what the first call left behind (<<>>: no second call)
    \* ---- SceneRenderer.render_scene ------------------------------------
    script_blocks,       \* the timeline render_scene is given
    scene_audio,         \* its audio_files argument: what the voice stage returned
    project,             \* the files written below the project directory
    out,                 \* the lines of the script being compiled
    emitted,             \* per block of the timeline: the lines it appended
    shown,               \* the identifiers already shown
    blk_i,               \* index of the block the compile loop is at
    compiler,            \* "none" | "template" | "ai"
    failed,              \* the file creations that failed in this run
    summary,             \* the entries of scene_summary.txt
    result,              \* the dict render_scene returned
    render_pc,           \* where render_scene is
    preview,             \* the block list embedded in preview.html (<<>>: no file)
    \* ---- SceneRenderer._sanitize_name ----------------------------------
    san_raw,             \* the argument
    san_out,             \* what the last call returned
    san_first,           \* what the first call returned
    san_calls,           \* the calls made so far
    \* ---- the player of preview.html -------------------------------------
    scene_len,           \* sceneBlocks.length
    currentBlock,
    isPlaying,
    sceneTimer,          \* the handle setTimeout returned last (0: null)
    pending,             \* the handles of the timers armed and not yet fired
    timer_seq,           \* the handles setTimeout has given out
    last_event,          \* the handler that ran last: a button or "timer"
    held,                \* Pause or Reset was pressed, no Start or Next since
    session,             \* what the user has done since the reset state
    displayed,           \* the indexes playCurrentBlock has presented since
                         \* the display was cleared
    \* ---- ScriptGenerator.generate_script --------------------------------
    gemini_model,        \* self.gemini_model: "unset" | "none" | "model"
    stage_outcome,       \* what each generation stage met
    gen_pc,              \* where generate_script is
    gen_result,          \* the list generate_script returned
    \* ---- two pipeline runs and the files they write ---------------------
    disk,                \* path -> the run whose content the file holds
    run_lines,           \* run -> the voiced lines of its script
    run_at,              \* run -> the lines generate_voices has written
    run_pc,              \* run -> where its pipeline is
    run_wrote,           \* run -> the paths it has written
    \* ---- calls of other requests during a generate_voices run -----------
    inv_calls,           \* the calls that touched the cache during the run
    regen_log,           \* what each regenerate_voice call went through
    \* ---- VoiceGenerator._build_voice_description ------------------------
    desc_traits,         \* argument traits
    desc_emotion,        \* argument emotion
    desc_out             \* the returned description (<<>>: not called yet)

asmVars == <<dialogue, actions, structured_script, dialogue_index,
             action_index, loop_i, asm_pc>>

voiceVars == <<elevenlabs_client, elevenlabs_key, voice_cache, script,
               character_voice_map, audio_files, returned, files, requests,
               voice_log, vpos, vpc>>

concVars == <<rblock, rpc, rvoice, rreq>>

renderVars == <<script_blocks, scene_audio, project, out, emitted, shown,
                blk_i, compiler, failed, summary, result, render_pc, preview>>

sanVars == <<san_raw, san_out, san_first, san_calls>>

playerVars == <<scene_len, currentBlock, isPlaying, sceneTimer, pending,
                timer_seq, last_event, held, session, displayed>>

genVars == <<gemini_model, stage_outcome, gen_pc, gen_result>>

sharedVars == <<disk, run_lines, run_at, run_pc, run_wrote>>

invVars == <<inv_calls, regen_log>>

descVars == <<desc_traits, desc_emotion, desc_out>>

lateVars == <<sanVars, playerVars, genVars, sharedVars, invVars, descVars>>

vars == <<asmVars, voiceVars, concVars, first_run, renderVars, lateVars>>

(***************************************************************************)
(* Bounds                                                                  *)
(***************************************************************************)
MaxLen == 3

MaxScript == 2

(***************************************************************************)
(* Shared helpers                                                          *)
(***************************************************************************)
\* a Python dict: a function on a finite set of string keys
EmptyMap == [k \in {} |-> ""]

MapPut(f, k, v) == [x \in DOMAIN f \cup {k} |-> IF x = k THEN v ELSE f[x]]

\* the part of the state a specification does not exercise
AsmIdle ==
    /\ dialogue = <<>>
    /\ actions = <<>>
    /\ structured_script = <<>>
    /\ dialogue_index = 0
    /\ action_index = 0
    /\ loop_i = 0
    /\ asm_pc = "idle"

VoiceIdle ==
    /\ elevenlabs_client = FALSE
    /\ elevenlabs_key = FALSE
    /\ voice_cache = EmptyMap
    /\ script = <<>>
    /\ character_voice_map = EmptyMap
    /\ audio_files = EmptyMap
    /\ returned = EmptyMap
    /\ files = EmptyMap
    /\ requests = <<>>
    /\ voice_log = <<>>
    /\ vpos = 0
    /\ vpc = "idle"

ConcIdle ==
    /\ rblock = <<>>
    /\ rpc = <<>>
    /\ rvoice = <<>>
    /\ rreq = <<>>

RenderIdle ==
    /\ script_blocks = <<>>
    /\ scene_audio = EmptyMap
    /\ project = {}
    /\ out = <<>>
    /\ emitted = <<>>
    /\ shown = {}
    /\ blk_i = 0
    /\ compiler = "none"
    /\ failed = {}
    /\ summary = <<>>
    /\ result = [status |-> "none"]
    /\ render_pc = "idle"
    /\ preview = <<>>

SanIdle ==
    /\ san_raw = <<>>
    /\ san_out = <<>>
    /\ san_first = <<>>
    /\ san_calls = 0

PlayerIdle ==
    /\ scene_len = 0
    /\ currentBlock = 0
    /\ isPlaying = FALSE
    /\ sceneTimer = 0
    /\ pending = {}
    /\ timer_seq = 0
    /\ last_event = "load"
    /\ held = FALSE
    /\ session = "fresh"
    /\ displayed = <<>>

NoOutcome == [plan |-> "none", dialogue |-> "none", actions |-> "none"]

GenIdle ==
    /\ gemini_model = "unset"
    /\ stage_outcome = NoOutcome
    /\ gen_pc = "idle"
    /\ gen_result = <<>>

SharedIdle ==
    /\ disk = <<>>
    /\ run_lines = <<>>
    /\ run_at = <<>>
    /\ run_pc = <<>>
    /\ run_wrote = <<>>

InvIdle ==
    /\ inv_calls = 0
    /\ regen_log = <<>>

DescIdle ==
    /\ desc_traits = <<>>
    /\ desc_emotion = ""
    /\ desc_out = <<>>

LateIdle ==
    SanIdle /\ PlayerIdle /\ GenIdle /\ SharedIdle /\ InvIdle /\ DescIdle

(***************************************************************************)
(* Timeline assembler                                                      *)
(***************************************************************************)
\* block.get('id') is falsy: the key is absent, None or the empty string
NoId == ""

\* ids a generation stage may supply ("1" is what the fallback dialogue uses)
SuppliedIds == {NoId, "1", "block_2"}

Max(a, b) == IF a >= b THEN a ELSE b
Min(a, b) == IF a <= b THEN a ELSE b

\* The k-th element of a stream: its content is tagged by origin and rank.
StreamBlock(kind, k, id) == [type |-> kind, tag |-> k, id |-> id]

Streams(kind) ==
    UNION { { [k \in 1..m |-> StreamBlock(kind, k - 1, ids[k])] :
                ids \in [1..m -> SuppliedIds] } : m \in 0..MaxLen }

SceneBlock == [type |-> "scene", tag |-> 0, id |-> "scene_start"]

max_items == Max(Len(dialogue), Len(actions))

LoopRange == max_items * 2

\* an iteration that forgets "action_index += 1"
LoopBodyStuckAction(s, ai, di, i) ==
    LET takeA == ai < Len(actions) /\ i % 2 = 0
        s1    == IF takeA THEN Append(s, actions[ai + 1]) ELSE s
        takeD == di < Len(dialogue)
        s2    == IF takeD THEN Append(s1, dialogue[di + 1]) ELSE s1
        di1   == IF takeD THEN di + 1 ELSE di
    IN  [script |-> s2, ai |-> ai, di |-> di1]

\* an iteration that takes an action on every third step only
LoopBodyEveryThird(s, ai, di, i) ==
    LET takeA == ai < Len(actions) /\ i % 3 = 0
        s1    == IF takeA THEN Append(s, actions[ai + 1]) ELSE s
        ai1   == IF takeA THEN ai + 1 ELSE ai
        takeD == di < Len(dialogue)
        s2    == IF takeD THEN Append(s1, dialogue[di + 1]) ELSE s1
        di1   == IF takeD THEN di + 1 ELSE di
    IN  [script |-> s2, ai |-> ai1, di |-> di1]

\* an iteration that appends the dialogue before the action
LoopBodyDialogueFirst(s, ai, di, i) ==
    LET takeD == di < Len(dialogue)
        s1    == IF takeD THEN Append(s, dialogue[di + 1]) ELSE s
        di1   == IF takeD THEN di + 1 ELSE di
        takeA == ai < Len(actions) /\ i % 2 = 0
        s2    == IF takeA THEN Append(s1, actions[ai + 1]) ELSE s1
        ai1   == IF takeA THEN ai + 1 ELSE ai
    IN  [script |-> s2, ai |-> ai1, di |-> di1]

\* One iteration of the interleave loop, lines 362-371.
LoopBody(s, ai, di, i) ==
    LET takeA == ai < Len(actions) /\ i % 2 = 0
        s1    == IF takeA THEN Append(s, actions[ai + 1]) ELSE s
        ai1   == IF takeA THEN ai + 1 ELSE ai
        takeD == di < Len(dialogue)
        s2    == IF takeD THEN Append(s1, dialogue[di + 1]) ELSE s1
        di1   == IF takeD THEN di + 1 ELSE di
    IN  [script |-> s2, ai |-> ai1, di |-> di1]

\* The two "remaining items" loops, lines 373-380.
Leftover(s, ai, di) ==
    s \o SubSeq(actions, ai + 1, Len(actions))
      \o SubSeq(dialogue, di + 1, Len(dialogue))

\* f"block_{i}"
PositionalId(i) == "block_" \o ToString(i)

\* The id pass, lines 382-385 (enumerate is 0-based).
AssignIds(s) ==
    [p \in 1..Len(s) |->
        IF s[p].id = NoId THEN [s[p] EXCEPT !.id = PositionalId(p - 1)]
                          ELSE s[p]]

AsmInit ==
    /\ dialogue \in Streams("dialogue")
    /\ actions \in Streams("action")
    /\ structured_script = <<SceneBlock>>
    /\ dialogue_index = 0
    /\ action_index = 0
    /\ loop_i = 0
    /\ asm_pc = "loop"
    /\ VoiceIdle
    /\ ConcIdle
    /\ RenderIdle
    /\ first_run = <<>>
    /\ LateIdle

\* for i in range(max_items * 2): one iteration
LoopStep ==
    /\ asm_pc = "loop"
    /\ loop_i < LoopRange
    /\ LET r == LoopBody(structured_script, action_index, dialogue_index,
                         loop_i)
       IN  /\ structured_script' = r.script
           /\ action_index' = r.ai
           /\ dialogue_index' = r.di
    /\ loop_i' = loop_i + 1
    /\ UNCHANGED <<dialogue, actions, asm_pc, voiceVars, concVars, renderVars, lateVars,
                   first_run>>

\* loop exit: the remaining-items loops, the id pass and the return
Finish ==
    /\ asm_pc = "loop"
    /\ loop_i = LoopRange
    /\ structured_script' =
          AssignIds(Leftover(structured_script, action_index, dialogue_index))
    /\ action_index' = Len(actions)
    /\ dialogue_index' = Len(dialogue)
    /\ asm_pc' = "done"
    /\ UNCHANGED <<dialogue, actions, loop_i, voiceVars, concVars, renderVars, lateVars,
                   first_run>>

AsmNext == LoopStep \/ Finish

SpecAsm == AsmInit /\ [][AsmNext]_vars

(***************************************************************************)
(* Claims about the timeline assembler (checked under SpecAsm)             *)
(***************************************************************************)
\* what a block is, apart from the id the id pass may have filled in
Content(b) == [type |-> b.type, tag |-> b.tag]

ContentSeq(s) == [p \in 1..Len(s) |-> Content(s[p])]

IsDialogue(b) == b.type = "dialogue"

IsAction(b) == b.type = "action"

\* the returned timeline without its leading scene block
Body == Tail(structured_script)

\* C1: the timeline minus the scene block holds every element of D and of A
\* exactly once (m+n blocks), each stream in its original relative order.
C1_StableInterleave ==
    asm_pc = "done" =>
        /\ Len(Body) = Len(dialogue) + Len(actions)
        /\ ContentSeq(SelectSeq(Body, IsDialogue)) = ContentSeq(dialogue)
        /\ ContentSeq(SelectSeq(Body, IsAction)) = ContentSeq(actions)

C1_Witness ==
    /\ asm_pc = "done"
    /\ Len(dialogue) = 3
    /\ Len(actions) = 2

\* C2: for each k < min(m,n) the blocks at positions 2k+1 and 2k+2 (position
\* 0 is the scene block) are A[k] and D[k]; the rest of the longer stream
\* follows these rounds in its original order.
C2_RoundRobin ==
    asm_pc = "done" =>
        LET rounds == Min(Len(dialogue), Len(actions))
            longer == IF Len(dialogue) >= Len(actions) THEN dialogue
                                                       ELSE actions
        IN  /\ \A k \in 0..(rounds - 1) :
                  /\ Content(structured_script[2 * k + 2])
                        = Content(actions[k + 1])
                  /\ Content(structured_script[2 * k + 3])
                        = Content(dialogue[k + 1])
            /\ ContentSeq(SubSeq(structured_script, 2 * rounds + 2,
                                 Len(structured_script)))
                  = ContentSeq(SubSeq(longer, rounds + 1, Len(longer)))

\* C3: after _structure_as_json every block has a non-empty id and no two
\* blocks of the timeline share an id.
C3_UniqueIds ==
    asm_pc = "done" =>
        /\ \A p \in 1..Len(structured_script) : structured_script[p].id # NoId
        /\ \A p, q \in 1..Len(structured_script) :
              p # q => structured_script[p].id # structured_script[q].id

\* C4: a dialogue block that arrived without an id carries block_<index> and
\* that id differs from the id of every other block of the timeline.
C4_PositionalIdFresh ==
    asm_pc = "done" =>
        \A p \in 1..Len(structured_script) :
            LET b == structured_script[p] IN
            (b.type = "dialogue" /\ dialogue[b.tag + 1].id = NoId) =>
                /\ b.id = PositionalId(p - 1)
                /\ \A q \in 1..Len(structured_script) :
                      q # p => structured_script[q].id # b.id

(***************************************************************************)
(* VoiceGenerator (src/agents/voice_generator.py)                          *)
(***************************************************************************)
\* a missing key, None and "" are all falsy for the code that reads them
None == ""

\* default_voices, lines 261-265
Adam == "pNInz6obpgDQGcFmaJgB"

Rachel == "21m00Tcm4TlvDq8ikWAM"

\* str.lower() on the gender values the model feeds in
Lower(s) == IF s = "Male" THEN "male" ELSE s

\* str.strip() on the texts the model feeds in
Strip(s) == IF s = " " THEN "" ELSE s

\* ", ".join(parts)
RECURSIVE Join(_)
Join(parts) ==
    IF Len(parts) = 0 THEN ""
    ELSE IF Len(parts) = 1 THEN parts[1]
    ELSE parts[1] \o ", " \o Join(Tail(parts))

\* _build_voice_description, lines 166-184
BuildVoiceDescription(traits, emotion) ==
    LET p1 == IF traits.age_range # None THEN <<traits.age_range>> ELSE <<>>
        p2 == IF traits.gender # None THEN <<traits.gender>> ELSE <<>>
        p3 == IF traits.voice_style # None THEN <<traits.voice_style>> ELSE <<>>
        p4 == IF traits.accent # None THEN <<traits.accent \o " accent">>
                                       ELSE <<>>
        p5 == IF emotion # None /\ emotion # "neutral"
              THEN <<emotion \o " tone">> ELSE <<>>
        parts == p1 \o p2 \o p3 \o p4 \o p5
        used == IF parts = <<>> THEN <<"adult", "neutral", "clear">> ELSE parts
    IN  "A " \o Join(used) \o " voice."

\* _get_fallback_voice_id, lines 259-267
GetFallbackVoiceId(traits) ==
    LET gender == Lower(IF traits.gender = None THEN "neutral"
                                                ELSE traits.gender)
    IN  IF gender = "male" THEN Adam ELSE Rachel

\* the voice id the collaborator hands out for its n-th creation request
NewVoice(n) == "voice_" \o ToString(n)

\* a creation that does not look the description up first
CreateVoiceIgnoringCache(description, cache, outcome, n) ==
    IF outcome = "ok"
    THEN [voice_id |-> NewVoice(n),
          cache |-> MapPut(cache, description, NewVoice(n)),
          requested |-> TRUE]
    ELSE [voice_id |-> None, cache |-> cache, requested |-> TRUE]

\* _create_voice_from_description, lines 186-219.  outcome is what the
\* collaborator does with the request: "ok" or "fail" (any exception).
CreateVoiceFromDescription(description, cache, outcome, n) ==
    IF description \in DOMAIN cache
    THEN [voice_id |-> cache[description], cache |-> cache,
          requested |-> FALSE]
    ELSE IF outcome = "ok"
    THEN [voice_id |-> NewVoice(n),
          cache |-> MapPut(cache, description, NewVoice(n)),
          requested |-> TRUE]
    ELSE [voice_id |-> None, cache |-> cache, requested |-> TRUE]

\* a resolution that asks the cache of the process before the session map
GetOrCreateVoiceCacheFirst(character, traits, emotion, cvm, cache, client, outcome, n) ==
    IF character \in DOMAIN cache
    THEN [voice_id |-> cache[character],
          cvm |-> MapPut(cvm, character, cache[character]),
          cache |-> cache, requested |-> FALSE]
    ELSE IF character \in DOMAIN cvm
    THEN [voice_id |-> cvm[character], cvm |-> cvm, cache |-> cache,
          requested |-> FALSE]
    ELSE IF traits.elevenlabs_voice_id # None
    THEN [voice_id |-> traits.elevenlabs_voice_id,
          cvm |-> MapPut(cvm, character, traits.elevenlabs_voice_id),
          cache |-> cache, requested |-> FALSE]
    ELSE IF character \in DOMAIN cache
    THEN [voice_id |-> cache[character],
          cvm |-> MapPut(cvm, character, cache[character]),
          cache |-> cache, requested |-> FALSE]
    ELSE IF ~client
    THEN [voice_id |-> GetFallbackVoiceId(traits), cvm |-> cvm,
          cache |-> cache, requested |-> FALSE]
    ELSE LET c == CreateVoiceFromDescription(
                      BuildVoiceDescription(traits, emotion), cache,
                      outcome, n)
         IN  IF c.voice_id # None
             THEN [voice_id |-> c.voice_id,
                   cvm |-> MapPut(cvm, character, c.voice_id),
                   cache |-> MapPut(c.cache, character, c.voice_id),
                   requested |-> c.requested]
             ELSE [voice_id |-> GetFallbackVoiceId(traits), cvm |-> cvm,
                   cache |-> c.cache, requested |-> c.requested]

\* a resolution that keeps the default handle in the session map
GetOrCreateVoiceKeepingDefault(character, traits, emotion, cvm, cache, client, outcome, n) ==
    IF character \in DOMAIN cvm
    THEN [voice_id |-> cvm[character], cvm |-> cvm, cache |-> cache,
          requested |-> FALSE]
    ELSE IF traits.elevenlabs_voice_id # None
    THEN [voice_id |-> traits.elevenlabs_voice_id,
          cvm |-> MapPut(cvm, character, traits.elevenlabs_voice_id),
          cache |-> cache, requested |-> FALSE]
    ELSE IF character \in DOMAIN cache
    THEN [voice_id |-> cache[character],
          cvm |-> MapPut(cvm, character, cache[character]),
          cache |-> cache, requested |-> FALSE]
    ELSE IF ~client
    THEN [voice_id |-> GetFallbackVoiceId(traits),
          cvm |-> MapPut(cvm, character, GetFallbackVoiceId(traits)),
          cache |-> cache, requested |-> FALSE]
    ELSE LET c == CreateVoiceFromDescription(
                      BuildVoiceDescription(traits, emotion), cache,
                      outcome, n)
         IN  IF c.voice_id # None
             THEN [voice_id |-> c.voice_id,
                   cvm |-> MapPut(cvm, character, c.voice_id),
                   cache |-> MapPut(c.cache, character, c.voice_id),
                   requested |-> c.requested]
             ELSE [voice_id |-> GetFallbackVoiceId(traits),
                   cvm |-> MapPut(cvm, character, GetFallbackVoiceId(traits)),
                   cache |-> c.cache, requested |-> c.requested]

\* _get_or_create_voice_for_character, lines 125-164
GetOrCreateVoiceForCharacter(character, traits, emotion, cvm, cache, client, outcome, n) ==
    IF character \in DOMAIN cvm
    THEN [voice_id |-> cvm[character], cvm |-> cvm, cache |-> cache,
          requested |-> FALSE]
    ELSE IF traits.elevenlabs_voice_id # None
    THEN [voice_id |-> traits.elevenlabs_voice_id,
          cvm |-> MapPut(cvm, character, traits.elevenlabs_voice_id),
          cache |-> cache, requested |-> FALSE]
    ELSE IF character \in DOMAIN cache
    THEN [voice_id |-> cache[character],
          cvm |-> MapPut(cvm, character, cache[character]),
          cache |-> cache, requested |-> FALSE]
    ELSE IF ~client
    THEN [voice_id |-> GetFallbackVoiceId(traits), cvm |-> cvm,
          cache |-> cache, requested |-> FALSE]
    ELSE LET c == CreateVoiceFromDescription(
                      BuildVoiceDescription(traits, emotion), cache,
                      outcome, n)
         IN  IF c.voice_id # None
             THEN [voice_id |-> c.voice_id,
                   cvm |-> MapPut(cvm, character, c.voice_id),
                   cache |-> MapPut(c.cache, character, c.voice_id),
                   requested |-> c.requested]
             ELSE [voice_id |-> GetFallbackVoiceId(traits), cvm |-> cvm,
                   cache |-> c.cache, requested |-> c.requested]

\* os.path.join(project_dir, "audio") for the one project of the run
audio_dir == "proj/audio"

\* f"{character}_{block_id}.mp3", lines 84-86
AudioFilename(character, block_id) == character \o "_" \o block_id \o ".mp3"

AudioPath(character, block_id) ==
    audio_dir \o "/" \o AudioFilename(character, block_id)

\* audio_path.replace('.mp3', '_metadata.txt'), line 292
MetadataPath(character, block_id) ==
    audio_dir \o "/" \o character \o "_" \o block_id \o "_metadata.txt"

\* 16 header bytes and 1024 bytes of padding, lines 277-289
PlaceholderSize == 1040

PlaceholderFile == [kind |-> "placeholder", size |-> PlaceholderSize]

MetadataFile(text, character, block_id) ==
    [kind |-> "metadata", text |-> text, character |-> character,
     block_id |-> block_id]

\* response.content of a 200 reply
AudioFile == [kind |-> "audio"]

\* a placeholder writer that leaves only the sidecar, nothing at the audio path
CreateMp3FileSidecarOnly(fs, text, character, block_id) ==
    MapPut(fs, MetadataPath(character, block_id),
           MetadataFile(text, character, block_id))

\* _create_mp3_file, lines 269-300, when no write raises
CreateMp3File(fs, text, character, block_id) ==
    MapPut(MapPut(fs, AudioPath(character, block_id), PlaceholderFile),
           MetadataPath(character, block_id),
           MetadataFile(text, character, block_id))

\* _generate_audio_with_elevenlabs, lines 221-257: the result (the path or
\* None) and the file system after it.  outcome is "ok" (status 200) or
\* "fail" (another status, a timeout, any exception).
GenerateAudioWithElevenlabs(fs, key, outcome, output_path) ==
    IF ~key THEN [path |-> None, fs |-> fs]
    ELSE IF outcome = "ok"
    THEN [path |-> output_path, fs |-> MapPut(fs, output_path, AudioFile)]
    ELSE [path |-> None, fs |-> fs]

(***************************************************************************)
(* generate_voices: one run over one script                                *)
(***************************************************************************)
Characters == {"Mira", "Bo"}

BlockIds == {"1", "2"}

Texts == {" ", "Hi"}

Genders == {None, "Male"}

Emotions == {"neutral"}

EmbeddedIds == {None, "voice_T"}

Traits(g, v) ==
    [age_range |-> None, gender |-> g, voice_style |-> None, accent |-> None,
     elevenlabs_voice_id |-> v]

\* a dialogue line that carries text, and one whose text is blank
SpokenBlocks ==
    { [type |-> "dialogue", id |-> i, character |-> c, text |-> "Hi",
       traits |-> Traits(g, v), emotion |-> e] :
        i \in BlockIds, c \in Characters, g \in Genders, v \in EmbeddedIds,
        e \in Emotions }

BlankBlocks ==
    { [type |-> "dialogue", id |-> i, character |-> c, text |-> " ",
       traits |-> Traits(None, None), emotion |-> "neutral"] :
        i \in BlockIds, c \in Characters }

OtherBlocks ==
    { [type |-> "action", id |-> "action_1", character |-> None,
       text |-> None, traits |-> Traits(None, None), emotion |-> None] }

ScriptBlocks == SpokenBlocks \cup BlankBlocks \cup OtherBlocks

Scripts == UNION { [1..m -> ScriptBlocks] : m \in 0..MaxScript }

Outcomes == {"ok", "fail"}

WriteOutcomes == {"ok", "raise"}

\* What an earlier run of this process may have left behind: it created a
\* voice for Mira from the description of a male voice (lines 213 and 156).
EarlierRequests ==
    <<[description |-> BuildVoiceDescription(Traits("Male", None), "neutral"),
       name |-> "Mira"]>>

EarlierCache ==
    MapPut(MapPut(EmptyMap, EarlierRequests[1].description, NewVoice(1)),
           "Mira", NewVoice(1))

\* The process is fresh (lines 23-24), or has served one run before this one.
VoiceInit ==
    /\ AsmIdle
    /\ ConcIdle
    /\ RenderIdle
    /\ first_run = <<>>
    /\ LateIdle
    /\ elevenlabs_key \in BOOLEAN
    /\ elevenlabs_client \in BOOLEAN
    /\ elevenlabs_client => elevenlabs_key      \* lines 29-36
    /\ \/ voice_cache = EmptyMap /\ requests = <<>>
       \/ /\ elevenlabs_client
          /\ voice_cache = EarlierCache
          /\ requests = EarlierRequests
    /\ script \in Scripts
    /\ character_voice_map = EmptyMap
    /\ audio_files = EmptyMap
    /\ returned = EmptyMap
    /\ files = EmptyMap
    /\ voice_log = <<>>
    /\ vpos = 1
    /\ vpc = "run"

\* a block the loop passes over: not a dialogue block, or blank text
SkipBlock ==
    /\ vpc = "run"
    /\ vpos <= Len(script)
    /\ \/ script[vpos].type # "dialogue"
       \/ Strip(script[vpos].text) = ""
    /\ vpos' = vpos + 1
    /\ UNCHANGED <<asmVars, concVars, renderVars, lateVars, first_run, elevenlabs_client, elevenlabs_key, voice_cache,
                   script, character_voice_map, audio_files, returned, files,
                   requests, voice_log, vpc>>

\* lines 88-92: the audio file is already there
ExistingAudio ==
    /\ vpc = "run"
    /\ vpos <= Len(script)
    /\ LET block == script[vpos]
           audio_path == AudioPath(block.character, block.id)
       IN  /\ block.type = "dialogue"
           /\ Strip(block.text) # ""
           /\ audio_path \in DOMAIN files
           /\ audio_files' = MapPut(audio_files, block.id, audio_path)
    /\ vpos' = vpos + 1
    /\ UNCHANGED <<asmVars, concVars, renderVars, lateVars, first_run, elevenlabs_client, elevenlabs_key, voice_cache,
                   script, character_voice_map, returned, files, requests,
                   voice_log, vpc>>

\* what one pass through lines 94-117 does, for given collaborator outcomes
VoiceBlock(block, create, synth, write) ==
    LET n == Len(requests) + 1
        audio_path == AudioPath(block.character, block.id)
        description == BuildVoiceDescription(block.traits, block.emotion)
        r == GetOrCreateVoiceForCharacter(
                 block.character, block.traits, block.emotion,
                 character_voice_map, voice_cache, elevenlabs_client,
                 create, n)
        g == IF r.voice_id # None
             THEN GenerateAudioWithElevenlabs(files, elevenlabs_key, synth,
                                              audio_path)
             ELSE [path |-> None, fs |-> files]
        placeholder == g.path = None
        raised == placeholder /\ write = "raise"
    IN  [cvm |-> r.cvm,
         cache |-> r.cache,
         requests |-> IF r.requested
                      THEN Append(requests, [description |-> description,
                                             name |-> block.character])
                      ELSE requests,
         fs |-> IF ~placeholder THEN g.fs
                ELSE IF raised THEN files
                ELSE CreateMp3File(files, block.text, block.character,
                                   block.id),
         raised |-> raised,
         entry |-> [pos |-> vpos,
                    character |-> block.character,
                    traits |-> block.traits,
                    emotion |-> block.emotion,
                    voice_id |-> r.voice_id,
                    in_session |-> IF block.character
                                        \in DOMAIN character_voice_map
                                   THEN character_voice_map[block.character]
                                   ELSE None,
                    in_cache |-> IF block.character \in DOMAIN voice_cache
                                 THEN voice_cache[block.character] ELSE None,
                    in_cache_desc |-> IF description \in DOMAIN voice_cache
                                      THEN voice_cache[description] ELSE None,
                    requested |-> r.requested,
                    created |-> IF r.requested /\ create = "ok"
                                THEN NewVoice(n) ELSE None,
                    synth |-> IF r.voice_id = None THEN "skipped"
                              ELSE IF ~elevenlabs_key THEN "nokey"
                              ELSE synth,
                    placeholder |-> placeholder,
                    raised |-> raised]]

\* lines 94-117 storing the resolved handle in the traits of the block
ProcessBlockStoringHandle ==
    /\ vpc = "run"
    /\ vpos <= Len(script)
    /\ script[vpos].type = "dialogue"
    /\ Strip(script[vpos].text) # ""
    /\ AudioPath(script[vpos].character, script[vpos].id) \notin DOMAIN files
    /\ \E create \in Outcomes, synth \in Outcomes, write \in WriteOutcomes :
          LET block == script[vpos]
              v == VoiceBlock(block, create, synth, write)
          IN  /\ character_voice_map' = v.cvm
              /\ voice_cache' = v.cache
              /\ requests' = v.requests
              /\ files' = v.fs
              /\ voice_log' = Append(voice_log, v.entry)
              /\ script' = [script EXCEPT
                               ![vpos].traits.elevenlabs_voice_id =
                                   v.entry.voice_id]
              /\ IF v.raised
                 THEN /\ returned' = EmptyMap
                      /\ vpc' = "returned"
                      /\ UNCHANGED <<audio_files, vpos>>
                 ELSE /\ audio_files' =
                            MapPut(audio_files, block.id,
                                   AudioPath(block.character, block.id))
                      /\ vpos' = vpos + 1
                      /\ UNCHANGED <<returned, vpc>>
    /\ UNCHANGED <<asmVars, concVars, renderVars, lateVars, first_run, elevenlabs_client, elevenlabs_key>>

\* lines 94-117 for the block at vpos; a raise lands in lines 121-123
ProcessBlock ==
    /\ vpc = "run"
    /\ vpos <= Len(script)
    /\ script[vpos].type = "dialogue"
    /\ Strip(script[vpos].text) # ""
    /\ AudioPath(script[vpos].character, script[vpos].id) \notin DOMAIN files
    /\ \E create \in Outcomes, synth \in Outcomes, write \in WriteOutcomes :
          LET block == script[vpos]
              v == VoiceBlock(block, create, synth, write)
          IN  /\ character_voice_map' = v.cvm
              /\ voice_cache' = v.cache
              /\ requests' = v.requests
              /\ files' = v.fs
              /\ voice_log' = Append(voice_log, v.entry)
              /\ IF v.raised
                 THEN /\ returned' = EmptyMap
                      /\ vpc' = "returned"
                      /\ UNCHANGED <<audio_files, vpos>>
                 ELSE /\ audio_files' =
                            MapPut(audio_files, block.id,
                                   AudioPath(block.character, block.id))
                      /\ vpos' = vpos + 1
                      /\ UNCHANGED <<returned, vpc>>
    /\ UNCHANGED <<asmVars, concVars, renderVars, lateVars, first_run, elevenlabs_client, elevenlabs_key, script>>

\* line 119: return audio_files
ReturnAudio ==
    /\ vpc = "run"
    /\ vpos = Len(script) + 1
    /\ returned' = audio_files
    /\ vpc' = "returned"
    /\ UNCHANGED <<asmVars, concVars, renderVars, lateVars, first_run, elevenlabs_client, elevenlabs_key, voice_cache,
                   script, character_voice_map, audio_files, files, requests,
                   voice_log, vpos>>

VoiceNext == SkipBlock \/ ExistingAudio \/ ProcessBlock \/ ReturnAudio

SpecVoice == VoiceInit /\ [][VoiceNext]_vars

(***************************************************************************)
(* Claims about the voice registry and generate_voices (under SpecVoice)   *)
(***************************************************************************)
LogIndex == DOMAIN voice_log

\* the default handle the gender trait selects
DefaultFor(traits) ==
    IF traits.gender \in {"male", "Male", "MALE"} THEN Adam ELSE Rachel

\* C5: within one generate_voices run every resolution of the same character
\* name returns the same voice handle.
C5_SameCharacterSameVoice ==
    \A i, j \in LogIndex :
        voice_log[i].character = voice_log[j].character =>
            voice_log[i].voice_id = voice_log[j].voice_id

\* C6: resolving the same (character, traits, emotion) again in one session
\* returns the same handle and issues no second creation request.
C6_ResolveIdempotent ==
    \A i, j \in LogIndex :
        ( /\ i < j
          /\ voice_log[i].character = voice_log[j].character
          /\ voice_log[i].traits = voice_log[j].traits
          /\ voice_log[i].emotion = voice_log[j].emotion ) =>
            /\ voice_log[j].voice_id = voice_log[i].voice_id
            /\ ~(voice_log[i].requested /\ voice_log[j].requested)

\* the three sources the claim and the code agree on, in priority order
HigherSource(e) ==
    IF e.in_session # None THEN e.in_session
    ELSE IF e.traits.elevenlabs_voice_id # None
    THEN e.traits.elevenlabs_voice_id
    ELSE e.in_cache

\* a handle newly created by the collaborator, else the default handle when
\* the collaborator is absent or failed
CreatedOrDefault(e) ==
    \/ /\ e.requested
       /\ e.created # None
       /\ e.voice_id = e.created
    \/ /\ ~elevenlabs_client \/ (e.requested /\ e.created = None)
       /\ e.voice_id = DefaultFor(e.traits)

\* C8 as stated: session map, else handle in traits, else cache entry for the
\* character, else a newly created handle, else the default handle.
C8_ResolutionPriority ==
    \A i \in LogIndex :
        LET e == voice_log[i] IN
        IF HigherSource(e) # None
        THEN e.voice_id = HigherSource(e) /\ ~e.requested
        ELSE CreatedOrDefault(e)

\* C8 amended: between the cache entry for the character and a new creation,
\* a configured collaborator's cache entry for the synthesized description is
\* used, without a creation request.
C8_ResolutionPriorityWithDescription ==
    \A i \in LogIndex :
        LET e == voice_log[i] IN
        IF HigherSource(e) # None
        THEN e.voice_id = HigherSource(e) /\ ~e.requested
        ELSE IF elevenlabs_client /\ e.in_cache_desc # None
        THEN e.voice_id = e.in_cache_desc /\ ~e.requested
        ELSE CreatedOrDefault(e)

\* every source has been used once in one run's log, the description entry
\* of the cache among them
C8_Witness ==
    /\ \E i \in LogIndex :
          /\ HigherSource(voice_log[i]) = None
          /\ voice_log[i].in_cache_desc # None
          /\ voice_log[i].voice_id = voice_log[i].in_cache_desc
    /\ \E i \in LogIndex :
          /\ voice_log[i].in_session = None
          /\ voice_log[i].traits.elevenlabs_voice_id = None
          /\ voice_log[i].in_cache # None

\* the blocks of the script that are dialogue blocks
DialoguePositions == {p \in 1..Len(script) : script[p].type = "dialogue"}

\* C9: after generate_voices returns (from a run in which no file write
\* raised), every dialogue block has an entry under its block id in the
\* returned map and a file at <audio dir>/<character>_<id>.mp3.
C9_EveryDialogueHasAudio ==
    (vpc = "returned" /\ \A i \in LogIndex : ~voice_log[i].raised) =>
        \A p \in DialoguePositions :
            /\ script[p].id \in DOMAIN returned
            /\ AudioPath(script[p].character, script[p].id) \in DOMAIN files

\* C10: a block whose synthesis failed or was unavailable, and whose
\* placeholder was written, has a non-empty placeholder at its path and a
\* sidecar file holding its text, and the map that generate_voices returns
\* holds that path under the block id.
C10_PlaceholderRecorded ==
    \A i \in LogIndex :
        LET e == voice_log[i]
            b == script[e.pos]
            path == AudioPath(b.character, b.id)
            meta == MetadataPath(b.character, b.id)
        IN  (e.synth \in {"nokey", "fail"} /\ ~e.raised) =>
                /\ path \in DOMAIN files
                /\ files[path].kind = "placeholder"
                /\ files[path].size > 0
                /\ meta \in DOMAIN files
                /\ files[meta].text = b.text
                /\ vpc = "returned" =>
                      /\ b.id \in DOMAIN returned
                      /\ returned[b.id] = path

(***************************************************************************)
(* generate_voices called again with the same script and project_dir, on   *)
(* the same VoiceGenerator (src/app.py:29 serves every request): the       *)
(* locals of lines 58-59 are new, the object and the directory are not.    *)
(***************************************************************************)
RerunBlocks == {b \in ScriptBlocks : b.traits = Traits(None, None)}

RerunScripts == UNION { [1..m -> RerunBlocks] : m \in 0..MaxScript }

RerunInit ==
    /\ VoiceInit
    /\ script \in RerunScripts

\* the second call starts: lines 58-59
RunAgain ==
    /\ vpc = "returned"
    /\ first_run = <<>>
    /\ first_run' =
          <<[completed |-> \A i \in DOMAIN voice_log : ~voice_log[i].raised,
             returned |-> returned,
             requests |-> requests,
             voice_log |-> voice_log,
             files |-> files]>>
    /\ character_voice_map' = EmptyMap
    /\ audio_files' = EmptyMap
    /\ returned' = EmptyMap
    /\ vpos' = 1
    /\ vpc' = "run"
    /\ UNCHANGED <<asmVars, concVars, renderVars, lateVars, elevenlabs_client,
                   elevenlabs_key, voice_cache, script, files, requests,
                   voice_log>>

RerunNext ==
    SkipBlock \/ ExistingAudio \/ ProcessBlock \/ ReturnAudio \/ RunAgain

SpecRerun == RerunInit /\ [][RerunNext]_vars

(***************************************************************************)
(* Claim about the existing-file check (under SpecRerun)                   *)
(***************************************************************************)
\* the loop is at a voiced dialogue block whose target audio path has a file
AtExistingAudio ==
    /\ vpc = "run"
    /\ vpos <= Len(script)
    /\ script[vpos].type = "dialogue"
    /\ Strip(script[vpos].text) # ""
    /\ AudioPath(script[vpos].character, script[vpos].id) \in DOMAIN files

\* the step the loop takes from such a block: no creation request, no
\* synthesis (every synthesis is logged), no write, the id mapped to the path
ReusesExisting ==
    AtExistingAudio =>
        /\ requests' = requests
        /\ voice_log' = voice_log
        /\ files' = files
        /\ audio_files' =
              MapPut(audio_files, script[vpos].id,
                     AudioPath(script[vpos].character, script[vpos].id))

\* a second call is under way after a first call that returned normally
SecondRun == first_run # <<>> /\ first_run[1].completed

Runs == {1, 2}

ConcBlocks ==
    { [character |-> c, traits |-> Traits(g, v), emotion |-> "neutral"] :
        c \in Characters, g \in Genders, v \in EmbeddedIds }

RunDescription(t) == BuildVoiceDescription(rblock[t].traits, rblock[t].emotion)

ConcInit ==
    /\ AsmIdle
    /\ RenderIdle
    /\ first_run = <<>>
    /\ LateIdle
    /\ elevenlabs_key \in BOOLEAN
    /\ elevenlabs_client \in BOOLEAN
    /\ elevenlabs_client => elevenlabs_key
    /\ \/ voice_cache = EmptyMap /\ requests = <<>>
       \/ /\ elevenlabs_client
          /\ voice_cache = EarlierCache
          /\ requests = EarlierRequests
    /\ script = <<>>
    /\ character_voice_map = EmptyMap
    /\ audio_files = EmptyMap
    /\ returned = EmptyMap
    /\ files = EmptyMap
    /\ voice_log = <<>>
    /\ vpos = 0
    /\ vpc = "idle"
    /\ rblock \in [Runs -> ConcBlocks]
    /\ rpc = [t \in Runs |-> "resolve"]
    /\ rvoice = [t \in Runs |-> None]
    /\ rreq = [t \in Runs |-> 0]

ConcFrame ==
    UNCHANGED <<asmVars, elevenlabs_client, elevenlabs_key, script,
                character_voice_map, audio_files, returned, files, voice_log,
                vpos, vpc, rblock, renderVars, lateVars, first_run>>

\* lines 128-146: the run's own session map is new and empty; a handle in
\* traits, the cache entry of the character, a missing client
CheckCaches(t) ==
    /\ rpc[t] = "resolve"
    /\ LET b == rblock[t] IN
       IF b.traits.elevenlabs_voice_id # None
       THEN /\ rvoice' = [rvoice EXCEPT ![t] = b.traits.elevenlabs_voice_id]
            /\ rpc' = [rpc EXCEPT ![t] = "done"]
       ELSE IF b.character \in DOMAIN voice_cache
       THEN /\ rvoice' = [rvoice EXCEPT ![t] = voice_cache[b.character]]
            /\ rpc' = [rpc EXCEPT ![t] = "done"]
       ELSE IF ~elevenlabs_client
       THEN /\ rvoice' = [rvoice EXCEPT ![t] = GetFallbackVoiceId(b.traits)]
            /\ rpc' = [rpc EXCEPT ![t] = "done"]
       ELSE /\ rpc' = [rpc EXCEPT ![t] = "create"]
            /\ UNCHANGED rvoice
    /\ UNCHANGED <<voice_cache, requests, rreq>>
    /\ ConcFrame

\* lines 189-191: the description is looked up in the cache
CheckDescription(t) ==
    /\ rpc[t] = "create"
    /\ IF RunDescription(t) \in DOMAIN voice_cache
       THEN /\ rvoice' = [rvoice EXCEPT ![t] = voice_cache[RunDescription(t)]]
            /\ rpc' = [rpc EXCEPT ![t] = "insert"]
       ELSE /\ rpc' = [rpc EXCEPT ![t] = "call"]
            /\ UNCHANGED rvoice
    /\ UNCHANGED <<voice_cache, requests, rreq>>
    /\ ConcFrame

\* lines 196-203: the creation request goes out to the collaborator
IssueRequest(t) ==
    /\ rpc[t] = "call"
    /\ requests' = Append(requests, [description |-> RunDescription(t),
                                     name |-> rblock[t].character])
    /\ rreq' = [rreq EXCEPT ![t] = Len(requests) + 1]
    /\ rpc' = [rpc EXCEPT ![t] = "wait"]
    /\ UNCHANGED <<voice_cache, rvoice>>
    /\ ConcFrame

\* lines 205-211 and 217-219, 159-160: the collaborator answers the run's
\* request with a new voice, or the request fails
CollaboratorReply(t) ==
    /\ rpc[t] = "wait"
    /\ \E outcome \in Outcomes :
          IF outcome = "ok"
          THEN /\ rvoice' = [rvoice EXCEPT ![t] = NewVoice(rreq[t])]
               /\ rpc' = [rpc EXCEPT ![t] = "store"]
          ELSE /\ rvoice' = [rvoice EXCEPT ![t] =
                                 GetFallbackVoiceId(rblock[t].traits)]
               /\ rpc' = [rpc EXCEPT ![t] = "done"]
    /\ UNCHANGED <<voice_cache, requests, rreq>>
    /\ ConcFrame

\* line 213: self.voice_cache[description] = voice.voice_id
StoreDescription(t) ==
    /\ rpc[t] = "store"
    /\ voice_cache' = MapPut(voice_cache, RunDescription(t), rvoice[t])
    /\ rpc' = [rpc EXCEPT ![t] = "insert"]
    /\ UNCHANGED <<requests, rvoice, rreq>>
    /\ ConcFrame

\* lines 155-158: self.voice_cache[character] = voice_id
InsertCharacter(t) ==
    /\ rpc[t] = "insert"
    /\ voice_cache' = MapPut(voice_cache, rblock[t].character, rvoice[t])
    /\ rpc' = [rpc EXCEPT ![t] = "done"]
    /\ UNCHANGED <<requests, rvoice, rreq>>
    /\ ConcFrame

ConcNext ==
    \E t \in Runs :
        \/ CheckCaches(t)
        \/ CheckDescription(t)
        \/ IssueRequest(t)
        \/ CollaboratorReply(t)
        \/ StoreDescription(t)
        \/ InsertCharacter(t)

SpecConc == ConcInit /\ [][ConcNext]_vars

(***************************************************************************)
(* Claim about concurrent runs (under SpecConc)                            *)
(***************************************************************************)
\* the run's creation request is with the collaborator
InFlight(t) == rpc[t] = "wait"

\* C7: two runs that resolve the same uncached description concurrently do
\* not both have a creation request for it in flight: the cache check, the
\* creation call and the insert of one run are not interleaved with the other's.
C7_OneCreationInFlight ==
    \A t1, t2 \in Runs :
        (t1 # t2 /\ InFlight(t1) /\ InFlight(t2)) =>
            RunDescription(t1) # RunDescription(t2)

(***************************************************************************)
(* SceneRenderer (src/agents/scene_renderer.py)                            *)
(*                                                                         *)
(* A str the code looks into (a character name, a description) is a        *)
(* sequence of one-character strings; a block is a dict, a function on the *)
(* keys it has.                                                            *)
(***************************************************************************)
MaxScene == 3

\* dict.get(k, d)
Get(blk, k, d) == IF k \in DOMAIN blk THEN blk[k] ELSE d

UpperCase ==
    <<"A", "B", "C", "D", "E", "F", "G", "H", "I", "J", "K", "L", "M",
      "N", "O", "P", "Q", "R", "S", "T", "U", "V", "W", "X", "Y", "Z">>

LowerCase ==
    <<"a", "b", "c", "d", "e", "f", "g", "h", "i", "j", "k", "l", "m",
      "n", "o", "p", "q", "r", "s", "t", "u", "v", "w", "x", "y", "z">>

Digits == {"0", "1", "2", "3", "4", "5", "6", "7", "8", "9"}

\* a str is a sequence of code points: the ASCII ones are written as
\* themselves, and of the others the model has the capital I with dot
\* above, a letter whose lower-case form is two code points, "i" and the
\* combining dot above (a mark, not a letter)
CapitalIDot == "U+0130"

CombiningDot == "U+0307"

\* ch.isdigit(), ch.isalnum(), ch.lower()
IsDigit(ch) == ch \in Digits

IsAlnum(ch) ==
    \/ \E i \in DOMAIN UpperCase : UpperCase[i] = ch
    \/ \E i \in DOMAIN LowerCase : LowerCase[i] = ch
    \/ IsDigit(ch)
    \/ ch = CapitalIDot

LowerCh(ch) ==
    IF \E i \in DOMAIN UpperCase : UpperCase[i] = ch
    THEN <<LowerCase[CHOOSE i \in DOMAIN UpperCase : UpperCase[i] = ch]>>
    ELSE IF ch = CapitalIDot THEN <<"i", CombiningDot>>
    ELSE <<ch>>

\* ''.join(pieces)
RECURSIVE JoinAll(_)
JoinAll(pieces) ==
    IF pieces = <<>> THEN <<>> ELSE Head(pieces) \o JoinAll(Tail(pieces))

\* str.lower()
StrLower(s) ==
    IF s = <<>> THEN <<>> ELSE JoinAll([i \in 1..Len(s) |-> LowerCh(s[i])])

\* str.split(sep) for a one-character separator
RECURSIVE Split(_, _)
Split(s, sep) ==
    IF \A i \in 1..Len(s) : s[i] # sep THEN <<s>>
    ELSE LET k == CHOOSE i \in 1..Len(s) :
                      s[i] = sep /\ \A j \in 1..(i - 1) : s[j] # sep
         IN  <<SubSeq(s, 1, k - 1)>> \o Split(SubSeq(s, k + 1, Len(s)), sep)

\* sep.join(parts)
RECURSIVE JoinWith(_, _)
JoinWith(parts, sep) ==
    IF parts = <<>> THEN <<>>
    ELSE IF Len(parts) = 1 THEN parts[1]
    ELSE parts[1] \o <<sep>> \o JoinWith(Tail(parts), sep)

NonEmpty(piece) == piece # <<>>

Unknown == <<"u", "n", "k", "n", "o", "w", "n">>

\* _sanitize_name, lines 874-885
SanitizeName(raw) ==
    LET clean1 == IF raw = <<>> THEN <<>>
                  ELSE JoinAll([i \in 1..Len(raw) |->
                                   IF IsAlnum(raw[i]) THEN LowerCh(raw[i])
                                   ELSE <<"_">>])
        clean2 == JoinWith(SelectSeq(Split(clean1, "_"), NonEmpty), "_")
        clean3 == IF clean2 # <<>> /\ IsDigit(clean2[1])
                  THEN <<"_">> \o clean2 ELSE clean2
    IN  IF clean3 = <<>> THEN Unknown ELSE clean3

\* "char_": the prefix of line 531
CharPrefix == <<"c", "h", "a", "r", "_">>

\* c in s, for a one-character c
Contains(s, c) == \E i \in 1..Len(s) : s[i] = c

(***************************************************************************)
(* The timelines render_scene is given                                     *)
(***************************************************************************)
Al == <<"A", "l">>

Bo == <<"B", "o">>

BoBang == <<"B", "o", "!">>

RainyStreet == <<"R", "a", "i", "n", "y", " ", "S", "t">>

\* dialogue blocks: three speakers (two of them with one identifier), one
\* block without the text key, one without the character key
SceneDialogue ==
    { [type |-> "dialogue", id |-> "1", character |-> Al, text |-> "Hi"],
      [type |-> "dialogue", id |-> "2", character |-> Bo, text |-> "Hi"],
      [type |-> "dialogue", id |-> "2", character |-> BoBang, text |-> "Hi"],
      [type |-> "dialogue", id |-> "1", character |-> Al],
      [type |-> "dialogue", id |-> "2", text |-> "Hi"] }

\* the other blocks: the shapes of test_scene_renderer.py lines 32-62, an
\* action block, a block of a type the code does not know, one without type
SceneOther ==
    { [type |-> "environment", id |-> "env_1", description |-> RainyStreet,
       environmental_impact |->
           [sound_implications |-> <<"rain", "drip_sound">>]],
      [type |-> "movement", id |-> "action_1", description |-> RainyStreet,
       environmental_impact |-> [sound_implications |-> <<"hum">>]],
      [type |-> "action", id |-> "action_2", description |-> RainyStreet,
       environmental_impact |-> [sound_implications |-> <<"door">>]],
      [type |-> "title", id |-> "1", character |-> Al, text |-> "Hi"],
      [id |-> "2", character |-> Bo, text |-> "Hi"] }

SceneBlocks == SceneDialogue \cup SceneOther

Timelines == UNION { [1..m -> SceneBlocks] : m \in 0..MaxScene }

(***************************************************************************)
(* The voice stage as render_scene's caller sees it (src/app.py:207-210):  *)
(* one call of generate_voices, which returns its map or, after a raise,   *)
(* the empty map (voice_generator.py lines 119-123).                       *)
(***************************************************************************)
\* the default of block.get("character", "Unknown"), line 67
UnknownCharacter == <<"U", "n", "k", "n", "o", "w", "n">>

\* lines 63-73: the block gets a voice line
Voiced(blk) ==
    /\ Get(blk, "type", None) = "dialogue"
    /\ Strip(Get(blk, "text", "")) # ""

\* lines 84-86: audio_dir / f"{character}_{block_id}.mp3"
VoiceFile(blk) ==
    [dir |-> audio_dir,
     character |-> Get(blk, "character", UnknownCharacter),
     name |-> "_" \o Get(blk, "id", "unknown") \o ".mp3"]

\* the map a call builds when nothing raises
RECURSIVE VoicedMap(_, _)
VoicedMap(s, audio) ==
    IF s = <<>> THEN audio
    ELSE VoicedMap(Tail(s),
                   IF Voiced(Head(s))
                   THEN MapPut(audio, Get(Head(s), "id", "unknown"),
                               VoiceFile(Head(s)))
                   ELSE audio)

(***************************************************************************)
(* _create_renpy_project, lines 267-442                                    *)
(***************************************************************************)
\* a file below the project directory: dir / <character><name>
ProjectFile(dir, character, name) ==
    [dir |-> dir, character |-> character, name |-> name]

\* the keys of sound_effects without ".mp3", lines 446-458
SoundEffects ==
    <<"sfx_rain", "sfx_footsteps", "sfx_door", "sfx_ambient", "sfx_wind",
      "sfx_thunder", "sfx_typing", "sfx_phone_ring", "sfx_heartbeat",
      "sfx_clock", "sfx_impact">>

\* lines 295-311: voice_<id>.mp3 and the file under its own name, for every
\* entry of the audio map but the one whose copy raises (logged, skipped)
CopiedVoices(audio, bad) ==
    UNION { { ProjectFile("game/audio", <<>>, "voice_" \o id \o ".mp3"),
              ProjectFile("game/audio", audio[id].character, audio[id].name) } :
            id \in DOMAIN audio \ {bad} }

\* lines 487-498, no resource file found: the two placeholders of each of
\* the first n effects of the catalogue
SoundPlaceholders(n) ==
    UNION { { ProjectFile("game/audio", <<>>, SoundEffects[k] \o ".txt"),
              ProjectFile("game/audio/sfx", <<>>, SoundEffects[k] \o ".txt") } :
            k \in 1..n }

\* lines 499-515, no external images directory
ImagePlaceholders ==
    { ProjectFile("game/images/characters", <<>>, "character_a.txt"),
      ProjectFile("game/images/characters", <<>>, "character_b.txt"),
      ProjectFile("game/images/backgrounds", <<>>, "background.txt") }

\* lines 386-436
ConfigFiles ==
    { ProjectFile("game", <<>>, "options.rpy"),
      ProjectFile("game", <<>>, "gui.rpy"),
      ProjectFile("game", <<>>, "audio_init.rpy") }

\* the id of the first block of the timeline that gets a voice line
FirstVoicedIds(s) ==
    {Get(s[p], "id", "unknown") :
        p \in {q \in 1..Len(s) :
                  Voiced(s[q]) /\ \A r \in 1..(q - 1) : ~Voiced(s[r])}}

\* what a call meets, if anything: the file of the first voice line is not
\* there (line 296: the entry is passed over), or one file creation fails:
\* the copy of the first voice line, the placeholder of the first or the
\* last sound effect, an image
ProvisionFailures(audio, s) ==
    {[asset |-> "none"]}
    \cup {[asset |-> "voice_absent", id |-> i] :
             i \in DOMAIN audio \cap FirstVoicedIds(s)}
    \cup {[asset |-> "voice_copy", id |-> i] :
             i \in DOMAIN audio \cap FirstVoicedIds(s)}
    \cup {[asset |-> "sound_effect", index |-> k] : k \in {1, Len(SoundEffects)}}
    \cup {[asset |-> "character_image"]}

\* the files the call leaves in the project, and whether it raised
CreateProject(audio, f) ==
    LET copies == CopiedVoices(audio,
                      IF f.asset \in {"voice_copy", "voice_absent"}
                      THEN f.id ELSE None)
    IN  IF f.asset = "sound_effect"
        THEN [files |-> copies \cup SoundPlaceholders(f.index - 1),
              raised |-> TRUE]
        ELSE IF f.asset = "character_image"
        THEN [files |-> copies \cup SoundPlaceholders(Len(SoundEffects)),
              raised |-> TRUE]
        ELSE [files |-> copies \cup SoundPlaceholders(Len(SoundEffects))
                          \cup ImagePlaceholders \cup ConfigFiles,
              raised |-> FALSE]

(***************************************************************************)
(* _generate_renpy_script, lines 516-649.  A line of the script is a       *)
(* record: op names the instruction, the other fields are its operands.    *)
(***************************************************************************)
\* line 529: blk["character"] of a dialogue block without the key
LacksCharacter(s) ==
    \E p \in 1..Len(s) :
        Get(s[p], "type", None) = "dialogue" /\ "character" \notin DOMAIN s[p]

InSeq(s, x) == \E i \in 1..Len(s) : s[i] = x

\* lines 529-530: the speakers in order of first appearance
RECURSIVE UniqueCharsFrom(_, _)
UniqueCharsFrom(s, acc) ==
    IF s = <<>> THEN acc
    ELSE UniqueCharsFrom(Tail(s),
             IF Get(Head(s), "type", None) = "dialogue"
                /\ ~InSeq(acc, Head(s).character)
             THEN Append(acc, Head(s).character) ELSE acc)

unique_chars(s) == UniqueCharsFrom(s, <<>>)

\* lines 531-532
char_var_for_name(s) ==
    LET u == unique_chars(s)
    IN  [name \in {u[i] : i \in 1..Len(u)} |-> CharPrefix \o SanitizeName(name)]

\* lines 535-600: the declarations and the opening of the scene
Preamble(s) ==
    LET u  == unique_chars(s)
        cv == char_var_for_name(s)
    IN  <<[op |-> "image_bg"]>>
        \o [i \in 1..Len(u) |-> [op |-> "image", var |-> cv[u[i]]]]
        \o <<[op |-> "transforms"], [op |-> "define_audio"]>>
        \o [i \in 1..Len(u) |->
               [op |-> "define", var |-> cv[u[i]], name |-> u[i]]]
        \o <<[op |-> "label_start"], [op |-> "scene_bg"]>>

\* lines 642-647
WrapUp == <<[op |-> "comment_end"], [op |-> "narrate_end"], [op |-> "return"]>>

\* os.path.basename of a voice file
Basename(f) == [character |-> f.character, name |-> f.name]

\* an entrance that does not remember whom it has shown
EnterCharacterAgain(char, var, seen) ==
    IF var # <<>> /\ var \notin seen
    THEN LET pos == IF Contains(var, "a") THEN "left" ELSE "right"
         IN  [lines |-> <<[op |-> "comment_show", name |-> char, pos |-> pos],
                          [op |-> "show", var |-> var, pos |-> pos],
                          [op |-> "blank"]>>,
              shown |-> seen]
    ELSE [lines |-> <<>>, shown |-> seen]

\* lines 626-632: first appearance, place on left/right
EnterCharacter(char, var, seen) ==
    IF var # <<>> /\ var \notin seen
    THEN LET pos == IF Contains(var, "a") THEN "left" ELSE "right"
         IN  [lines |-> <<[op |-> "comment_show", name |-> char, pos |-> pos],
                          [op |-> "show", var |-> var, pos |-> pos],
                          [op |-> "blank"]>>,
              shown |-> seen \cup {var}]
    ELSE [lines |-> <<>>, shown |-> seen]

\* a spoken line that never gets its voice cue
SpeakLineNoCue(bid, var, text, audio) ==
    <<[op |-> "say", var |-> var, text |-> text]>>

\* lines 634-639: the voice line if provided, then the dialogue
SpeakLine(bid, var, text, audio) ==
    (IF bid \in DOMAIN audio
     THEN <<[op |-> "voice", file |-> Basename(audio[bid])]>> ELSE <<>>)
    \o <<[op |-> "say", var |-> var, text |-> text]>>

\* a loop body that leaves a comment for a block of a type it does not know
CompileBlockEchoUnknown(blk, audio, cv, seen) ==
    LET btype == Get(blk, "type", "")
        bid   == Get(blk, "id", "")
        char  == Get(blk, "character", <<>>)
        text  == Get(blk, "text", "")
        var   == IF char \in DOMAIN cv THEN cv[char] ELSE <<>>
        desc  == Get(blk, "description", <<>>)
    IN  IF btype = "environment"
        THEN [lines |-> <<[op |-> "comment", kind |-> "Environment",
                           desc |-> desc],
                          [op |-> "narrate", desc |-> StrLower(desc)]>>,
              shown |-> seen]
        ELSE IF btype = "movement"
        THEN [lines |-> <<[op |-> "comment", kind |-> "Movement",
                           desc |-> desc]>>,
              shown |-> seen]
        ELSE IF btype # "dialogue"
        THEN [lines |-> <<[op |-> "comment", kind |-> btype, desc |-> desc]>>,
              shown |-> seen]
        ELSE LET e == EnterCharacter(char, var, seen)
             IN  [lines |-> e.lines \o SpeakLine(bid, var, text, audio),
                  shown |-> e.shown]

\* lines 605-639: what one block appends to out, and shown after it
CompileBlock(blk, audio, cv, seen) ==
    LET btype == Get(blk, "type", "")
        bid   == Get(blk, "id", "")
        char  == Get(blk, "character", <<>>)
        text  == Get(blk, "text", "")
        var   == IF char \in DOMAIN cv THEN cv[char] ELSE <<>>
        desc  == Get(blk, "description", <<>>)
    IN  IF btype = "environment"
        THEN [lines |-> <<[op |-> "comment", kind |-> "Environment",
                           desc |-> desc],
                          [op |-> "narrate", desc |-> StrLower(desc)]>>,
              shown |-> seen]
        ELSE IF btype = "movement"
        THEN [lines |-> <<[op |-> "comment", kind |-> "Movement",
                           desc |-> desc]>>,
              shown |-> seen]
        ELSE IF btype # "dialogue"
        THEN [lines |-> <<>>, shown |-> seen]
        ELSE LET e == EnterCharacter(char, var, seen)
             IN  [lines |-> e.lines \o SpeakLine(bid, var, text, audio),
                  shown |-> e.shown]

\* lines 602-639: the scene body of a whole timeline s compiled with the
\* identifiers cv, from an empty shown
RECURSIVE CompileBody(_, _, _, _)
CompileBody(s, audio, cv, seen) ==
    IF s = <<>> THEN <<>>
    ELSE LET c == CompileBlock(Head(s), audio, cv, seen)
         IN  c.lines \o CompileBody(Tail(s), audio, cv, c.shown)

(***************************************************************************)
(* _create_fallback_scene, lines 1382-1428                                 *)
(***************************************************************************)
\* lines 1396-1414: what the summary says about the i-th block
SummaryEntry(i, blk, audio) ==
    LET head == [index |-> i, id |-> Get(blk, "id", "unknown")]
    IN  IF Get(blk, "type", None) = "dialogue"
        THEN [index |-> i, id |-> Get(blk, "id", "unknown"),
              character |-> Get(blk, "character", UnknownCharacter),
              text |-> Get(blk, "text", ""),
              audio |-> Get(blk, "id", "") \in DOMAIN audio]
        ELSE IF Get(blk, "type", None) = "action"
        THEN [index |-> i, id |-> Get(blk, "id", "unknown"),
              description |-> Get(blk, "description", <<>>)]
        ELSE head

SummaryOf(s, audio) == [i \in 1..Len(s) |-> SummaryEntry(i, s[i], audio)]

(***************************************************************************)
(* One pipeline run: the voice stage, then render_scene (src/app.py        *)
(* lines 207-210; scene_renderer.py lines 22-75)                           *)
(***************************************************************************)
RenderInit ==
    /\ AsmIdle
    /\ VoiceIdle
    /\ ConcIdle
    /\ first_run = <<>>
    /\ LateIdle
    /\ script_blocks \in Timelines
    /\ scene_audio = EmptyMap
    /\ project = {}
    /\ out = <<>>
    /\ emitted = <<>>
    /\ shown = {}
    /\ blk_i = 0
    /\ compiler = "none"
    /\ failed = {}
    /\ summary = <<>>
    /\ result = [status |-> "none"]
    /\ render_pc = "voices"
    /\ preview = <<>>

RenderFrame ==
    UNCHANGED <<asmVars, voiceVars, concVars, first_run, lateVars, script_blocks>>

\* the last block of the timeline that gets a voice line
LastVoiced(s) ==
    {p \in 1..Len(s) :
        Voiced(s[p]) /\ \A r \in (p + 1)..Len(s) : ~Voiced(s[r])}

\* src/app.py line 207: generate_voices returns the map of the voiced
\* blocks, or {} when the creation of a voice line raised (block `bad`, the
\* last one: the lines made before it are dropped with it)
GenerateVoices ==
    /\ render_pc = "voices"
    /\ \E bad \in {0} \cup LastVoiced(script_blocks) :
          IF bad = 0
          THEN /\ scene_audio' = VoicedMap(script_blocks, EmptyMap)
               /\ UNCHANGED failed
          ELSE /\ scene_audio' = EmptyMap
               /\ failed' = failed \cup {[asset |-> "voice_line", block |-> bad]}
    /\ render_pc' = "project"
    /\ UNCHANGED <<project, out, emitted, shown, blk_i, compiler, summary,
                   result>>
    /\ UNCHANGED preview
    /\ RenderFrame

\* line 47: _create_renpy_project; a raise lands in lines 73-75
CreateRenpyProject ==
    /\ render_pc = "project"
    /\ \E f \in ProvisionFailures(scene_audio, script_blocks) :
          LET c == CreateProject(scene_audio, f)
          IN  /\ project' = c.files
              /\ failed' = IF f.asset \in {"none", "voice_absent"}
                           THEN failed ELSE failed \cup {f}
              /\ render_pc' = IF c.raised THEN "fallback" ELSE "compile"
    /\ UNCHANGED <<scene_audio, out, emitted, shown, blk_i, compiler, summary,
                   result>>
    /\ UNCHANGED preview
    /\ RenderFrame

\* lines 51-56, 659-867: the reply of the language model is the script
GenerateWithAi ==
    /\ render_pc = "compile"
    /\ ~LacksCharacter(script_blocks)          \* line 689
    /\ out' = <<[op |-> "ai_reply"]>>
    /\ compiler' = "ai"
    /\ render_pc' = "write"
    /\ UNCHANGED <<scene_audio, project, emitted, shown, blk_i, failed,
                   summary, result>>
    /\ UNCHANGED preview
    /\ RenderFrame

\* lines 671, 674, 865, 872: the template compiler is called; lines 524-603,
\* where line 529 raises KeyError for a dialogue block without a character
StartTemplate ==
    /\ render_pc = "compile"
    /\ IF LacksCharacter(script_blocks)
       THEN /\ render_pc' = "fallback"
            /\ UNCHANGED <<out, blk_i, compiler>>
       ELSE /\ out' = Preamble(script_blocks)
            /\ blk_i' = 1
            /\ compiler' = "template"
            /\ render_pc' = "loop"
    /\ UNCHANGED <<scene_audio, project, emitted, shown, failed, summary,
                   result>>
    /\ UNCHANGED preview
    /\ RenderFrame

\* lines 605-639: one iteration of "for blk in script"
CompileStep ==
    /\ render_pc = "loop"
    /\ blk_i <= Len(script_blocks)
    /\ LET c == CompileBlock(script_blocks[blk_i], scene_audio,
                             char_var_for_name(script_blocks), shown)
       IN  /\ out' = out \o c.lines
           /\ emitted' = Append(emitted, c.lines)
           /\ shown' = c.shown
    /\ blk_i' = blk_i + 1
    /\ UNCHANGED <<scene_audio, project, compiler, failed, summary, result,
                   render_pc>>
    /\ UNCHANGED preview
    /\ RenderFrame

\* lines 641-649: wrap-up and return
FinishTemplate ==
    /\ render_pc = "loop"
    /\ blk_i = Len(script_blocks) + 1
    /\ out' = out \o WrapUp
    /\ render_pc' = "write"
    /\ UNCHANGED <<scene_audio, project, emitted, shown, blk_i, compiler,
                   failed, summary, result>>
    /\ UNCHANGED preview
    /\ RenderFrame

\* what _build_scene finds: the Ren'Py SDK (line 891), or no SDK and, at
\* the paths of lines 934-938, no script.json, the script.json of this
\* timeline (src/app.py lines 202-204), or the one of an earlier timeline
BuildInputs == {"sdk", "absent", "current", "stale"}

\* an earlier timeline of the project folder: this one before its first
\* block was added
StaleScript(s) == Tail(s)

\* lines 929-951 and 1200: the list that json.dumps embeds as sceneBlocks;
\* json.load of a dumped list of these blocks gives the list back
EmbeddedBlocks(s, found) ==
    IF found = "current" THEN s
    ELSE IF found = "stale" THEN StaleScript(s)
    ELSE <<>>

\* lines 58-72: script.rpy is written, the scene is built (_build_scene,
\* lines 887-900; _create_html_preview, lines 920-1380) and the result
\* returned
WriteScript ==
    /\ render_pc = "write"
    /\ \E write \in WriteOutcomes :
          IF write = "ok"
          THEN \E found \in BuildInputs :
                  /\ found = "stale" => script_blocks # <<>>
                  /\ project' =
                        project
                        \cup {ProjectFile("game", <<>>, "script.rpy")}
                        \cup (IF found = "sdk" THEN {}
                              ELSE {ProjectFile("", <<>>, "preview.html")})
                  /\ preview' =
                        IF found = "sdk" THEN <<>>
                        ELSE <<EmbeddedBlocks(script_blocks, found)>>
                  /\ result' = [status |-> "success",
                                script_file |-> "game/script.rpy"]
                  /\ render_pc' = "done"
                  /\ UNCHANGED failed
          ELSE /\ failed' = failed \cup {[asset |-> "script"]}
               /\ render_pc' = "fallback"
               /\ UNCHANGED <<project, result, preview>>
    /\ UNCHANGED <<scene_audio, out, emitted, shown, blk_i, compiler, summary>>
    /\ RenderFrame

\* lines 73-75, 1382-1428: the text summary, or the error result when
\* writing the summary raises as well
CreateFallbackScene ==
    /\ render_pc = "fallback"
    /\ \E write \in WriteOutcomes :
          IF write = "ok"
          THEN /\ summary' = SummaryOf(script_blocks, scene_audio)
               /\ result' = [status |-> "fallback_created",
                             type |-> "fallback",
                             summary_file |->
                                 "rendered_scenes/fallback/scene_summary.txt"]
               /\ UNCHANGED failed
          ELSE /\ failed' = failed \cup {[asset |-> "summary"]}
               /\ result' = [status |-> "error"]
               /\ UNCHANGED summary
    /\ render_pc' = "done"
    /\ UNCHANGED <<scene_audio, project, out, emitted, shown, blk_i, compiler>>
    /\ UNCHANGED preview
    /\ RenderFrame

RenderNext ==
    \/ GenerateVoices
    \/ CreateRenpyProject
    \/ GenerateWithAi
    \/ StartTemplate
    \/ CompileStep
    \/ FinishTemplate
    \/ WriteScript
    \/ CreateFallbackScene

SpecRender == RenderInit /\ [][RenderNext]_vars

(***************************************************************************)
(* Claims about provisioning and the template compiler (under SpecRender)  *)
(***************************************************************************)
\* the script is the template compiler's
TemplateUsed == compiler = "template"

\* the blocks the compile loop has passed
Compiled == 1..Len(emitted)

BlockType(p) == Get(script_blocks[p], "type", None)

IsDialogueAt(p) == BlockType(p) = "dialogue"

\* the positions in the lines of block p that hold instruction op
OpsAt(p, op) == {k \in 1..Len(emitted[p]) : emitted[p][k].op = op}

RECURSIVE Flatten(_)
Flatten(groups) ==
    IF groups = <<>> THEN <<>> ELSE Head(groups) \o Flatten(Tail(groups))

\* render_scene returned the script of the template compiler
CompiledByTemplate ==
    render_pc = "done" /\ TemplateUsed /\ result.status = "success"

\* C11: the failure to create or copy one asset file is skipped and does
\* not abort provisioning: when the voice line of one block fails, the map
\* still holds the entries of all other voiced blocks; when one file of the
\* sound-effect catalogue fails, the other catalogue files are still
\* created; and render_scene still returns the compiled script.
C11_AssetFailureSkipped ==
    \A f \in failed :
        /\ f.asset = "voice_line" =>
              \A p \in 1..Len(script_blocks) :
                  (p # f.block /\ Voiced(script_blocks[p])) =>
                      Get(script_blocks[p], "id", "unknown")
                          \in DOMAIN scene_audio
        /\ f.asset = "sound_effect" =>
              \A k \in 1..Len(SoundEffects) :
                  k # f.index =>
                      ProjectFile("game/audio", <<>>, SoundEffects[k] \o ".txt")
                          \in project
        /\ ( /\ f.asset \in {"voice_line", "voice_copy", "sound_effect",
                             "character_image"}
             /\ render_pc = "done"
             /\ failed = {f}
             /\ ~LacksCharacter(script_blocks) ) =>
              result.status = "success"

IsShow(line) == line.op = "show"

\* the entrance instructions of the script, in the order they appear
Shows == SelectSeq(out, IsShow)

\* C13: the template compiler places the speakers by alternation in order
\* of first appearance: the first entrance is at left, the second at right,
\* and so on; for dialogue [A, B], A enters at left and B at right.
C13_AlternateLeftRight ==
    TemplateUsed =>
        \A k \in 1..Len(Shows) :
            Shows[k].pos = IF k % 2 = 1 THEN "left" ELSE "right"

\* where the identifier v is shown: block and position in the block's lines
ShowsOf(v) ==
    UNION { { <<p, k>> : k \in {j \in OpsAt(p, "show") :
                                   emitted[p][j].var = v} } :
            p \in Compiled }

C15_CueThenLine ==
    CompiledByTemplate =>
        LET cv == char_var_for_name(script_blocks)
        IN  /\ Len(emitted) = Len(script_blocks)
            /\ \A p \in Compiled :
                  LET b == script_blocks[p]
                      g == emitted[p]
                      n == Len(g)
                      bid == Get(b, "id", "")
                  IN  IF IsDialogueAt(p)
                      THEN /\ n >= 1
                           /\ g[n] = [op |-> "say", var |-> cv[b.character],
                                      text |-> Get(b, "text", "")]
                           /\ OpsAt(p, "say") = {n}
                           /\ (bid \in DOMAIN scene_audio) <=>
                                  (OpsAt(p, "voice") # {})
                           /\ \A k \in OpsAt(p, "voice") :
                                 /\ k = n - 1
                                 /\ g[k].file = Basename(scene_audio[bid])
                           /\ \E k \in 1..Len(out) :
                                 out[k] = [op |-> "define",
                                           var |-> cv[b.character],
                                           name |-> b.character]
                      ELSE OpsAt(p, "say") = {} /\ OpsAt(p, "voice") = {}
            /\ out = Preamble(script_blocks) \o Flatten(emitted) \o WrapUp

\* a compiled scene with a dialogue block that has a voice line and one
\* that has none
C15_Witness ==
    /\ CompiledByTemplate
    /\ \E p, q \in Compiled :
          /\ IsDialogueAt(p) /\ OpsAt(p, "voice") # {}
          /\ IsDialogueAt(q) /\ OpsAt(q, "voice") = {}

\* the keywords the claim names
RecognisedKeywords == {"rain", "footsteps", "door", "thunder"}

\* the recognised keywords among environmental_impact.sound_implications
SoundKeywords(blk) ==
    LET impact == Get(blk, "environmental_impact",
                      [sound_implications |-> <<>>])
        words == Get(impact, "sound_implications", <<>>)
    IN  {words[i] : i \in 1..Len(words)} \cap RecognisedKeywords

DescribedTypes == {"movement", "action", "environment"}

\* C16: a movement, action or environment block whose sound_implications
\* holds a recognised keyword gets a sound-cue instruction for that effect
\* among its lines; environment block "rain" gives a rain sound cue.
C16_SoundCue ==
    TemplateUsed =>
        \A p \in Compiled :
            BlockType(p) \in DescribedTypes =>
                \A w \in SoundKeywords(script_blocks[p]) :
                    \E k \in OpsAt(p, "play") : emitted[p][k].sound = w

\* C17: every action, movement or environment block has at least one
\* descriptive or comment instruction among its lines in the script.
C17_DescriptiveInstruction ==
    TemplateUsed =>
        \A p \in Compiled :
            BlockType(p) \in DescribedTypes =>
                OpsAt(p, "comment") \cup OpsAt(p, "narrate") # {}

\* the types the timeline model knows
KnownTypes == {"dialogue", "action", "movement", "environment", "scene"}

UnknownType(blk) == Get(blk, "type", None) \notin KnownTypes

KnownBlock(blk) == ~UnknownType(blk)

\* the timeline without its blocks of unknown or missing type
WithoutUnknown == SelectSeq(script_blocks, KnownBlock)

\* C18: a block of unrecognised or missing type is passed over: the voice
\* stage makes no line for it and returns the map of the timeline without
\* the unknown blocks; a run without a failed file creation falls back only
\* when the timeline without them would; the block adds no line, and the
\* compiled script is the script of the timeline without the unknown blocks.
C18_UnknownTypeInert ==
    /\ (render_pc = "project" /\ failed = {}) =>
          /\ \A p \in 1..Len(script_blocks) :
                UnknownType(script_blocks[p]) => ~Voiced(script_blocks[p])
          /\ scene_audio = VoicedMap(WithoutUnknown, EmptyMap)
    /\ (render_pc = "fallback" /\ failed = {}) =>
          LacksCharacter(WithoutUnknown)
    /\ CompiledByTemplate =>
          /\ \A p \in Compiled :
                UnknownType(script_blocks[p]) => emitted[p] = <<>>
          /\ out = Preamble(WithoutUnknown)
                      \o CompileBody(WithoutUnknown, scene_audio,
                                     char_var_for_name(WithoutUnknown), {})
                      \o WrapUp

\* a compiled scene with a block of unknown type between two lines of one
\* speaker, the unknown block carrying a character and a text of its own
C18_Witness ==
    /\ CompiledByTemplate
    /\ Len(script_blocks) = 3
    /\ IsDialogueAt(1) /\ IsDialogueAt(3)
    /\ script_blocks[1].character = script_blocks[3].character
    /\ UnknownType(script_blocks[2])
    /\ "character" \in DOMAIN script_blocks[2]
    /\ DOMAIN scene_audio # {}

\* C19: no field read raises: a dialogue block without the character key
\* is voiced under the default name, and a run in which no file creation
\* failed returns the compiled script, whose spoken lines carry the text of
\* their block, or the empty string when the block has no text key.
C19_MissingFieldsDefaulted ==
    /\ (render_pc # "voices" /\ failed = {}) =>
          \A p \in 1..Len(script_blocks) :
              ( /\ IsDialogueAt(p)
                /\ "character" \notin DOMAIN script_blocks[p]
                /\ Voiced(script_blocks[p]) ) =>
                  /\ Get(script_blocks[p], "id", "unknown")
                         \in DOMAIN scene_audio
    /\ TemplateUsed =>
          \A p \in Compiled :
              IsDialogueAt(p) =>
                  \A k \in OpsAt(p, "say") :
                      emitted[p][k].text = Get(script_blocks[p], "text", "")
    /\ (render_pc = "done" /\ failed = {}) => result.status = "success"

\* C20: render_scene does not raise; when project creation or compilation
\* raised, the result points to a text summary file that lists every block
\* of the timeline, one entry per block in timeline order.
C20_FallbackSummary ==
    render_pc = "done" =>
        \/ result.status = "success"
        \/ /\ result.status = "fallback_created"
           /\ "summary_file" \in DOMAIN result
           /\ Len(summary) = Len(script_blocks)
           /\ \A i \in 1..Len(script_blocks) :
                 /\ summary[i].index = i
                 /\ summary[i].id = Get(script_blocks[i], "id", "unknown")

(***************************************************************************)
(* Claims about identifiers (under SpecRender)                             *)
(***************************************************************************)
\* the speakers of the timeline, as a set
Speakers ==
    {script_blocks[p].character :
        p \in {q \in 1..Len(script_blocks) : IsDialogueAt(q)}}

\* C21: two distinct character names of a compiled script have distinct
\* identifiers, also when _sanitize_name gives the same result for both, so
\* each keeps a declaration and an entrance instruction of its own.
C21_CollidingNamesKeptApart ==
    CompiledByTemplate =>
        LET cv == char_var_for_name(script_blocks)
        IN  \A a, b \in Speakers :
                a # b =>
                    /\ cv[a] # cv[b]
                    /\ ShowsOf(cv[a]) # ShowsOf(cv[b])

(***************************************************************************)
(* _sanitize_name called on a name, twice (scene_renderer.py lines         *)
(* 874-885; it reads nothing but its argument)                             *)
(***************************************************************************)
MaxName == 3

\* the code points a name is made of
NameAlphabet == {"A", "b", "2", "!", "_", CapitalIDot}

Names == UNION { [1..m -> NameAlphabet] : m \in 0..MaxName }

SanInit ==
    /\ AsmIdle
    /\ VoiceIdle
    /\ ConcIdle
    /\ RenderIdle
    /\ first_run = <<>>
    /\ PlayerIdle
    /\ GenIdle
    /\ SharedIdle
    /\ InvIdle
    /\ DescIdle
    /\ san_raw \in Names
    /\ san_out = <<>>
    /\ san_first = <<>>
    /\ san_calls = 0

\* one call of self._sanitize_name(san_raw)
Sanitize ==
    /\ san_calls < 2
    /\ san_out' = SanitizeName(san_raw)
    /\ san_first' = IF san_calls = 0 THEN SanitizeName(san_raw) ELSE san_first
    /\ san_calls' = san_calls + 1
    /\ UNCHANGED <<asmVars, voiceVars, concVars, first_run, renderVars,
                   playerVars, genVars, sharedVars, invVars, descVars,
                   san_raw>>

SanNext == Sanitize

SpecSanitize == SanInit /\ [][SanNext]_vars

(***************************************************************************)
(* Claim about _sanitize_name (under SpecSanitize)                         *)
(***************************************************************************)
\* a lower-case letter or a digit
IsLowerAlnum(ch) ==
    (\E i \in DOMAIN LowerCase : LowerCase[i] = ch) \/ ch \in Digits

\* C22: the identifier is the same on every call for the same name; it is
\* never empty; it holds only lower-case alphanumerics and underscores, no
\* underscore at the end, none next to another, no digit at the start and
\* an underscore at the start only in front of a digit; and it is "unknown"
\* when the name is empty or has no alphanumeric character.
C22_SanitizeName ==
    san_calls > 0 =>
        LET n == Len(san_out)
        IN  /\ san_calls = 2 => san_out = san_first
            /\ n > 0
            /\ \A i \in 1..n : san_out[i] = "_" \/ IsLowerAlnum(san_out[i])
            /\ san_out[n] # "_"
            /\ \A i \in 1..(n - 1) :
                  ~(san_out[i] = "_" /\ san_out[i + 1] = "_")
            /\ ~IsDigit(san_out[1])
            /\ san_out[1] = "_" => (n > 1 /\ IsDigit(san_out[2]))
            /\ (\A i \in 1..Len(san_raw) : ~IsAlnum(san_raw[i])) =>
                  san_out = Unknown

(***************************************************************************)
(* Claims about the preview and the voice files (under SpecRender)         *)
(***************************************************************************)
\* C23: the preview.html that render_scene wrote embeds the block list that
\* render_scene was given: the same blocks in the same order.
C23_PreviewEmbedsTimeline ==
    (render_pc = "done" /\ preview # <<>>) => preview[1] = script_blocks

\* the file below game/audio that a voice-cue instruction names
CuedFile(line) == ProjectFile("game/audio", line.file.character, line.file.name)

\* C25: every audio file named by a voice-cue instruction of the compiled
\* script is among the files of the project's audio directory.
C25_CuedAudioExists ==
    CompiledByTemplate =>
        \A p \in Compiled :
            \A k \in OpsAt(p, "voice") : CuedFile(emitted[p][k]) \in project

(***************************************************************************)
(* The player of preview.html (scene_renderer.py lines 1197-1277, the same *)
(* text in src/agents/prompts/preview_html.py lines 251-331).  The page is *)
(* single-threaded: a button handler or a timer callback runs to its end.  *)
(***************************************************************************)
MaxTimers == 4

\* pauseScene, lines 1229-1235: what it leaves in isPlaying, sceneTimer and
\* pending (clearTimeout of a handle that has fired changes nothing)
PauseState(timer, armed) ==
    [isPlaying |-> FALSE, sceneTimer |-> 0,
     pending |-> IF timer # 0 THEN armed \ {timer} ELSE armed]

\* a playCurrentBlock that presents the block and arms no timer
PlayCurrentBlockNoTimer(cur, playing, timer, armed, seq) ==
    IF cur >= scene_len
    THEN LET ps == PauseState(timer, armed)
         IN  [isPlaying |-> ps.isPlaying, sceneTimer |-> ps.sceneTimer,
              pending |-> ps.pending, timer_seq |-> seq]
    ELSE [isPlaying |-> playing, sceneTimer |-> timer, pending |-> armed,
          timer_seq |-> seq]

\* playCurrentBlock, lines 1253-1277, at currentBlock = cur
PlayCurrentBlock(cur, playing, timer, armed, seq) ==
    IF cur >= scene_len
    THEN LET ps == PauseState(timer, armed)
         IN  [isPlaying |-> ps.isPlaying, sceneTimer |-> ps.sceneTimer,
              pending |-> ps.pending, timer_seq |-> seq]
    ELSE IF playing
    THEN [isPlaying |-> playing, sceneTimer |-> seq + 1,
          pending |-> armed \cup {seq + 1}, timer_seq |-> seq + 1]
    ELSE [isPlaying |-> playing, sceneTimer |-> timer, pending |-> armed,
          timer_seq |-> seq]

PlayerFrame ==
    UNCHANGED <<asmVars, voiceVars, concVars, first_run, renderVars, sanVars,
                genVars, sharedVars, invVars, descVars, scene_len>>

\* the page after DOMContentLoaded, lines 1205-1210
PlayerInit ==
    /\ AsmIdle
    /\ VoiceIdle
    /\ ConcIdle
    /\ RenderIdle
    /\ first_run = <<>>
    /\ SanIdle
    /\ GenIdle
    /\ SharedIdle
    /\ InvIdle
    /\ DescIdle
    /\ scene_len \in 0..MaxScene
    /\ currentBlock = 0
    /\ isPlaying = FALSE
    /\ sceneTimer = 0
    /\ pending = {}
    /\ timer_seq = 0
    /\ last_event = "load"
    /\ held = FALSE
    /\ session = "fresh"
    /\ displayed = <<>>

\* the state after playCurrentBlock has run at currentBlock = cur
Played(cur, playing) ==
    LET r == PlayCurrentBlock(cur, playing, sceneTimer, pending, timer_seq)
    IN  /\ currentBlock' = cur
        /\ isPlaying' = r.isPlaying
        /\ sceneTimer' = r.sceneTimer
        /\ pending' = r.pending
        /\ timer_seq' = r.timer_seq

\* lines 1258-1267 of playCurrentBlock: the block at cur is presented
Shown(cur) == IF cur < scene_len THEN Append(displayed, cur) ELSE displayed

\* the Start button, lines 1224-1227
StartScene ==
    /\ timer_seq < MaxTimers
    /\ Played(currentBlock, TRUE)
    /\ displayed' = Shown(currentBlock)
    /\ last_event' = "start"
    /\ held' = FALSE
    /\ session' = IF session = "fresh" THEN "started" ELSE "other"
    /\ PlayerFrame

\* the Pause button, lines 1229-1235
PauseScene ==
    /\ LET ps == PauseState(sceneTimer, pending)
       IN  /\ isPlaying' = ps.isPlaying
           /\ sceneTimer' = ps.sceneTimer
           /\ pending' = ps.pending
    /\ last_event' = "pause"
    /\ held' = TRUE
    /\ session' = IF session = "fresh" THEN "fresh" ELSE "other"
    /\ UNCHANGED <<currentBlock, timer_seq, displayed>>
    /\ PlayerFrame

\* the Reset button, lines 1237-1243.  With no timer pending the page is
\* in the state it was loaded in; no handle is referred to any more, and the
\* numbering of the handles starts again.
ResetScene ==
    /\ LET ps == PauseState(sceneTimer, pending)
       IN  /\ isPlaying' = ps.isPlaying
           /\ sceneTimer' = ps.sceneTimer
           /\ pending' = ps.pending
           /\ session' = IF ps.pending = {} THEN "fresh" ELSE "other"
           /\ timer_seq' = IF ps.pending = {} THEN 0 ELSE timer_seq
    /\ currentBlock' = 0
    /\ displayed' = <<>>
    /\ last_event' = "reset"
    /\ held' = TRUE
    /\ PlayerFrame

\* the Next button, lines 1245-1250
NextBlock ==
    /\ timer_seq < MaxTimers
    /\ IF currentBlock < scene_len - 1
       THEN /\ Played(currentBlock + 1, isPlaying)
            /\ displayed' = Shown(currentBlock + 1)
       ELSE UNCHANGED <<currentBlock, isPlaying, sceneTimer, pending,
                        timer_seq, displayed>>
    /\ last_event' = "next"
    /\ held' = FALSE
    /\ session' = IF session \in {"fresh", "stepping"} THEN "stepping"
                                                        ELSE "other"
    /\ PlayerFrame

\* a timer fires, lines 1272-1275: its callback runs
TimerFires ==
    /\ timer_seq < MaxTimers
    /\ \E t \in pending :
          LET r == PlayCurrentBlock(currentBlock + 1, isPlaying, sceneTimer,
                                    pending \ {t}, timer_seq)
          IN  /\ currentBlock' = currentBlock + 1
              /\ isPlaying' = r.isPlaying
              /\ sceneTimer' = r.sceneTimer
              /\ pending' = r.pending
              /\ timer_seq' = r.timer_seq
    /\ displayed' = Shown(currentBlock + 1)
    /\ last_event' = "timer"
    /\ UNCHANGED <<held, session>>
    /\ PlayerFrame

PlayerNext ==
    StartScene \/ PauseScene \/ ResetScene \/ NextBlock \/ TimerFires

SpecPlayer == PlayerInit /\ [][PlayerNext]_vars

\* the browser runs the callback of every timer that stays armed
SpecPlayerFair == SpecPlayer /\ WF_vars(TimerFires)

(***************************************************************************)
(* Claim about the player (under SpecPlayer)                               *)
(***************************************************************************)
\* C24: at most one auto-advance timer is pending in every reachable state
\* of the player.
C24_OneTimerPending == Cardinality(pending) <= 1

(***************************************************************************)
(* ScriptGenerator.generate_script (src/agents/script_generator.py lines   *)
(* 36-100): the three generation stages, then the assembler of SpecAsm.    *)
(* self.groq_client is None after __init__ (line 65); self.gemini_model is *)
(* the model, None (line 62), or not set at all (lines 53-64: no library   *)
(* or no key).                                                             *)
(***************************************************************************)
GeminiStates == {"unset", "none", "model"}

\* what a stage that has a client meets: the call raises, the reply is
\* empty, cannot be parsed, or is parsed
CallOutcomes == {"raise", "empty", "unparsable", "parsed"}

\* the failures of a stage
StageFailures == {"no_client", "raise", "empty", "unparsable"}

\* a parsed reply that is a JSON object, not a list
ObjectReply == "object"

\* the lists a stage's parsed reply can be
ParsedStreams(kind) ==
    {s \in Streams(kind) : \A k \in 1..Len(s) : s[k].id = NoId}

\* lines 246-265 and 421-441: the two generic dialogue lines
FallbackDialogue ==
    <<StreamBlock("dialogue", 0, "1"), StreamBlock("dialogue", 1, "2")>>

\* lines 337-342 and 443-449: the three generic action lines
FallbackActions ==
    <<StreamBlock("action", 0, "action_1"), StreamBlock("action", 1, "action_2"),
      StreamBlock("action", 2, "action_3")>>

\* a fallback script that opens with the narrator
CreateFallbackScriptNoScene ==
    <<StreamBlock("dialogue", 0, "2"), StreamBlock("scene", 0, "1"),
      StreamBlock("action", 0, "3"), StreamBlock("dialogue", 1, "4")>>

\* _create_fallback_script, lines 389-419
CreateFallbackScript ==
    <<StreamBlock("scene", 0, "1"), StreamBlock("dialogue", 0, "2"),
      StreamBlock("action", 0, "3"), StreamBlock("dialogue", 1, "4")>>

GenInit ==
    /\ AsmIdle
    /\ VoiceIdle
    /\ ConcIdle
    /\ RenderIdle
    /\ first_run = <<>>
    /\ SanIdle
    /\ PlayerIdle
    /\ SharedIdle
    /\ InvIdle
    /\ DescIdle
    /\ gemini_model \in GeminiStates
    /\ stage_outcome = NoOutcome
    /\ gen_pc = "interpret"
    /\ gen_result = <<>>

GenFrame ==
    UNCHANGED <<voiceVars, concVars, first_run, renderVars, sanVars,
                playerVars, sharedVars, invVars, descVars, gemini_model>>

\* line 76, _interpret_prompt (lines 130-181): line 133 reads
\* self.gemini_model outside any try of the method
InterpretPrompt ==
    /\ gen_pc = "interpret"
    /\ \E o \in CallOutcomes :
          /\ stage_outcome' =
                [stage_outcome EXCEPT !.plan =
                    IF gemini_model = "model" THEN o ELSE "no_client"]
          /\ gen_pc' = IF gemini_model = "unset" THEN "except" ELSE "dialogue"
    /\ UNCHANGED <<asmVars, gen_result>>
    /\ GenFrame

\* line 79, _generate_dialogue (lines 183-265); without a client the print
\* of the unbound result raises inside the try (lines 206-210, 243)
GenerateDialogue ==
    /\ gen_pc = "dialogue"
    /\ \E o \in CallOutcomes \cup {ObjectReply} :
          \E reply \in ParsedStreams("dialogue") :
              LET met == IF gemini_model = "model" THEN o ELSE "no_client"
              IN  /\ met # "parsed" => reply = <<>>
                  /\ stage_outcome' = [stage_outcome EXCEPT !.dialogue = met]
                  /\ dialogue' = IF met = "parsed" THEN reply
                                 ELSE IF met = ObjectReply THEN <<>>
                                 ELSE FallbackDialogue
    /\ gen_pc' = "actions"
    /\ UNCHANGED <<actions, structured_script, dialogue_index, action_index,
                   loop_i, asm_pc, gen_result>>
    /\ GenFrame

\* line 82, _generate_actions (lines 267-342)
GenerateActions ==
    /\ gen_pc = "actions"
    /\ \E o \in CallOutcomes \cup {ObjectReply} :
          \E reply \in ParsedStreams("action") :
              LET met == IF gemini_model = "model" THEN o ELSE "no_client"
              IN  /\ met # "parsed" => reply = <<>>
                  /\ stage_outcome' = [stage_outcome EXCEPT !.actions = met]
                  /\ actions' = IF met = "parsed" THEN reply
                                ELSE IF met = ObjectReply THEN <<>>
                                ELSE FallbackActions
    /\ gen_pc' = "structure"
    /\ UNCHANGED <<dialogue, structured_script, dialogue_index, action_index,
                   loop_i, asm_pc, gen_result>>
    /\ GenFrame

\* line 85, _structure_as_json up to its loop (lines 347-360); indexing a
\* reply that is an object raises KeyError (lines 365, 370)
EnterStructure ==
    /\ gen_pc = "structure"
    /\ asm_pc = "idle"
    /\ IF ObjectReply \in {stage_outcome.dialogue, stage_outcome.actions}
       THEN /\ gen_pc' = "except"
            /\ UNCHANGED <<structured_script, asm_pc>>
       ELSE /\ structured_script' = <<SceneBlock>>
            /\ asm_pc' = "loop"
            /\ UNCHANGED gen_pc
    /\ UNCHANGED <<dialogue, actions, dialogue_index, action_index, loop_i,
                   stage_outcome, gen_result>>
    /\ GenFrame

\* lines 88-96: _save_script_files catches what it raises (lines 127-128)
ReturnScript ==
    /\ gen_pc = "structure"
    /\ asm_pc = "done"
    /\ gen_result' = structured_script
    /\ gen_pc' = "returned"
    /\ UNCHANGED <<asmVars, stage_outcome>>
    /\ GenFrame

\* lines 98-100
ReturnFallbackScript ==
    /\ gen_pc = "except"
    /\ gen_result' = CreateFallbackScript
    /\ gen_pc' = "returned"
    /\ UNCHANGED <<asmVars, stage_outcome>>
    /\ GenFrame

GenNext ==
    \/ InterpretPrompt
    \/ GenerateDialogue
    \/ GenerateActions
    \/ EnterStructure
    \/ LoopStep
    \/ Finish
    \/ ReturnScript
    \/ ReturnFallbackScript

SpecGen == GenInit /\ [][GenNext]_vars

(***************************************************************************)
(* Claims about generate_script (under SpecGen)                            *)
(***************************************************************************)
\* C26: when stages failed (no client, a raise, an empty or unparsable
\* reply) and no reply was an object, the returned timeline is the one the
\* assembler built, with the two generic dialogue lines for a failed
\* dialogue stage and the three generic action lines for a failed action
\* stage.
C26_StageFallbackOnly ==
    ( /\ gen_pc = "returned"
      /\ ObjectReply \notin {stage_outcome.dialogue, stage_outcome.actions} )
    =>  /\ asm_pc = "done"
        /\ gen_result = structured_script
        /\ stage_outcome.dialogue \in StageFailures =>
              dialogue = FallbackDialogue
        /\ stage_outcome.actions \in StageFailures =>
              actions = FallbackActions

\* C27: generate_script returns, whatever the stages met, a timeline that
\* is not empty and whose first block is a scene block.
C27_SceneBlockFirst ==
    /\ gen_pc \in {"interpret", "dialogue", "actions", "structure", "except",
                   "returned"}
    /\ gen_pc = "returned" =>
          /\ gen_result # <<>>
          /\ gen_result[1].type = "scene"

\* a call that returned the fallback script after a reply that was an
\* object
C27_Witness ==
    /\ gen_pc = "returned"
    /\ stage_outcome.dialogue = ObjectReply
    /\ gen_result = CreateFallbackScript

\* C32: when the dialogue stage or the action stage yields a single object
\* instead of a list, generate_script returns the timeline the assembler
\* built (the scene block, then the interleave holding the object once as a
\* one-element stream), not the generic fallback script.
C32_ObjectCoerced ==
    ( /\ gen_pc = "returned"
      /\ ObjectReply \in {stage_outcome.dialogue, stage_outcome.actions} )
    =>  /\ asm_pc = "done"
        /\ gen_result = structured_script
        /\ gen_result # CreateFallbackScript
        /\ Len(gen_result) =
              1 + (IF stage_outcome.dialogue = ObjectReply THEN 1
                   ELSE Len(dialogue))
                + (IF stage_outcome.actions = ObjectReply THEN 1
                   ELSE Len(actions))

(***************************************************************************)
(* SpecShared: two runs of the full pipeline (src/app.py:179-224) on the   *)
(* agents the process shares (src/app.py:27-30), each on the project       *)
(* folder create_project_folder made for it, and the files they write.     *)
(* A step is what one request thread writes between two points where the   *)
(* other thread may run.                                                   *)
(***************************************************************************)
\* create_project_folder, src/app.py:45-60: results/<folder_name>, the name
\* carrying a timestamp and a uuid prefix of its own (src/app.py:33-43)
ProjectDirOf(r) == "results/run" \o ToString(r)

\* src/app.py:202
ScriptJsonPath(r) == ProjectDirOf(r) \o "/scripts/script.json"

\* _save_script_files, script_generator.py:102-128
ScenePlanPaths(r) ==
    { ProjectDirOf(r) \o "/scripts/scene_plan.json",
      ProjectDirOf(r) \o "/scripts/script_analysis.json" }

\* voice_generator.py:79-86, under the project folder of the run
RunAudioPath(r, k) ==
    ProjectDirOf(r) \o "/audio/" \o AudioFilename("Mira", ToString(k))

\* _generate_project_name, scene_renderer.py:131-149, for a script whose
\* first three blocks hold no dialogue text
DefaultProjectName == "infiniti_v_scene"

\* scene_renderer.py:41-42
ProjectPathOf(r) ==
    ProjectDirOf(r) \o "/renpy_project/" \o DefaultProjectName

\* scene_renderer.py:298
GameAudioPath(r, k) ==
    ProjectPathOf(r) \o "/game/audio/voice_" \o ToString(k) \o ".mp3"

\* scene_renderer.py:59
ScriptRpyPath(r) == ProjectPathOf(r) \o "/game/script.rpy"

\* scene_renderer.py:1365
PreviewPath(r) == ProjectPathOf(r) \o "/preview.html"

\* scene_renderer.py:1387-1390: self.output_dir is "rendered_scenes" for the
\* one SceneRenderer of the process (line 17), whatever the project
SummaryPath == "rendered_scenes/fallback/scene_summary.txt"

\* open(path, "w") and write, by run r, for each path of paths
WriteFiles(d, paths, r) ==
    [p \in DOMAIN d \cup paths |-> IF p \in paths THEN r ELSE d[p]]

SharedInit ==
    /\ AsmIdle
    /\ VoiceIdle
    /\ ConcIdle
    /\ RenderIdle
    /\ first_run = <<>>
    /\ SanIdle
    /\ PlayerIdle
    /\ GenIdle
    /\ InvIdle
    /\ DescIdle
    /\ disk = EmptyMap
    /\ run_lines \in [Runs -> 0..MaxScript]
    /\ run_at = [r \in Runs |-> 0]
    /\ run_pc = [r \in Runs |-> "script"]
    /\ run_wrote = [r \in Runs |-> {}]

SharedFrame ==
    UNCHANGED <<asmVars, voiceVars, concVars, first_run, renderVars, sanVars,
                playerVars, genVars, invVars, descVars, run_lines>>

\* what run r's thread does when it writes paths and moves to pc
RunWrites(r, paths, pc) ==
    /\ disk' = WriteFiles(disk, paths, r)
    /\ run_wrote' = [run_wrote EXCEPT ![r] = @ \cup paths]
    /\ run_pc' = [run_pc EXCEPT ![r] = pc]

\* src/app.py:199-204: generate_script (which saves the plan and the
\* analysis unless it took its fallback) and the script file
SaveScript(r) ==
    /\ run_pc[r] = "script"
    /\ \E planned \in BOOLEAN :
          RunWrites(r, {ScriptJsonPath(r)} \cup
                       (IF planned THEN ScenePlanPaths(r) ELSE {}), "voices")
    /\ UNCHANGED run_at
    /\ SharedFrame

\* src/app.py:207, one pass of the loop of generate_voices for a voiced line
VoiceLine(r) ==
    /\ run_pc[r] = "voices"
    /\ run_at[r] < run_lines[r]
    /\ RunWrites(r, {RunAudioPath(r, run_at[r] + 1)}, "voices")
    /\ run_at' = [run_at EXCEPT ![r] = @ + 1]
    /\ SharedFrame

\* generate_voices returns
VoicesReturn(r) ==
    /\ run_pc[r] = "voices"
    /\ run_at[r] = run_lines[r]
    /\ RunWrites(r, {}, "render")
    /\ UNCHANGED run_at
    /\ SharedFrame

\* src/app.py:210, render_scene lines 27-61: the project is provisioned, the
\* voice files copied and script.rpy written, unless something raises
\* (before any copy, or at the opening of script.rpy)
RenderProject(r) ==
    /\ run_pc[r] = "render"
    /\ LET copies == {GameAudioPath(r, k) : k \in 1..run_lines[r]} IN
       \E raised \in {"no", "provision", "script"} :
          CASE raised = "no" ->
                 RunWrites(r, copies \cup {ScriptRpyPath(r)}, "build")
            [] raised = "provision" -> RunWrites(r, {}, "fallback")
            [] raised = "script" -> RunWrites(r, copies, "fallback")
    /\ UNCHANGED run_at
    /\ SharedFrame

\* _build_scene, lines 887-900: the SDK branch writes nothing, the preview
\* branch writes preview.html unless it raises (lines 1378-1380)
BuildProject(r) ==
    /\ run_pc[r] = "build"
    /\ \E written \in BOOLEAN :
          RunWrites(r, IF written THEN {PreviewPath(r)} ELSE {}, "done")
    /\ UNCHANGED run_at
    /\ SharedFrame

\* _create_fallback_scene, lines 1382-1428
FallbackSummary(r) ==
    /\ run_pc[r] = "fallback"
    /\ \E written \in BOOLEAN :
          RunWrites(r, IF written THEN {SummaryPath} ELSE {}, "done")
    /\ UNCHANGED run_at
    /\ SharedFrame

SharedNext ==
    \E r \in Runs :
        \/ SaveScript(r)
        \/ VoiceLine(r)
        \/ VoicesReturn(r)
        \/ RenderProject(r)
        \/ BuildProject(r)
        \/ FallbackSummary(r)

SpecShared == SharedInit /\ [][SharedNext]_vars

(***************************************************************************)
(* Claim about the files of concurrent runs (under SpecShared)             *)
(***************************************************************************)
\* C28: of the files a pipeline run writes (script, audio, preview, fallback
\* summary), none is overwritten by the run on the other project: every
\* path a run has written still holds what that run wrote.
C28_RunsKeepTheirFiles ==
    \A r \in Runs : \A p \in run_wrote[r] : disk[p] = r

(***************************************************************************)
(* Claim about the script generate_voices is given (under SpecRerun)       *)
(***************************************************************************)
\* C29: generate_voices leaves the script it is given as it was: no step of
\* a run adds, removes or reorders a block or writes a field of a block
\* (text, character, emotion, traits, the voice handle in traits).
C29_ScriptUnchanged == [][script' = script]_vars

\* a run has returned after resolving a voice for a block that carried no
\* handle in its traits, and the block still carries none
C29_Witness ==
    /\ vpc = "returned"
    /\ \E i \in DOMAIN voice_log :
          /\ voice_log[i].voice_id # None
          /\ voice_log[i].traits.elevenlabs_voice_id = None
          /\ script[voice_log[i].pos].traits.elevenlabs_voice_id = None
          /\ voice_log[i].character \in DOMAIN character_voice_map

(***************************************************************************)
(* SpecInvalidate: one generate_voices run, and between its blocks the     *)
(* calls of other requests on the same VoiceGenerator (src/app.py:29) that *)
(* remove or replace entries of the cache of the process.                  *)
(***************************************************************************)
\* the calls of other requests that fall into one run
MaxInvalidations == 1

\* the spoken lines of one character, whose traits name no gender, and a
\* block that is no dialogue
InvBlocks ==
    {b \in SpokenBlocks : b.character = "Mira" /\ b.traits.gender = None}
        \cup OtherBlocks

InvScripts == UNION { [1..m -> InvBlocks] : m \in 0..MaxScript }

InvInit ==
    /\ VoiceInit
    /\ script \in InvScripts

\* the mapping without key k: del self.voice_cache[k]
MapDel(f, k) == [x \in DOMAIN f \ {k} |-> f[x]]

\* regenerate_voice, lines 327-365, for the dialogue block at position p of
\* the script and the project folder of the run: the cache entry of the
\* character is deleted, the voice resolved with a session map of its own,
\* the audio written at the path of the block
RegenerateVoice ==
    /\ inv_calls < MaxInvalidations
    /\ inv_calls' = inv_calls + 1
    /\ \E p \in DialoguePositions, create \in Outcomes, synth \in Outcomes,
          write \in WriteOutcomes :
          LET block == script[p]
              n == Len(requests) + 1
              audio_path == AudioPath(block.character, block.id)
              r == GetOrCreateVoiceForCharacter(
                       block.character, block.traits, block.emotion,
                       EmptyMap, MapDel(voice_cache, block.character),
                       elevenlabs_client, create, n)
              g == IF r.voice_id # None
                   THEN GenerateAudioWithElevenlabs(files, elevenlabs_key,
                                                    synth, audio_path)
                   ELSE [path |-> None, fs |-> files]
          IN  /\ voice_cache' = r.cache
              /\ requests' =
                    IF r.requested
                    THEN Append(requests,
                                [description |->
                                     BuildVoiceDescription(block.traits,
                                                           block.emotion),
                                 name |-> block.character])
                    ELSE requests
              /\ regen_log' =
                    Append(regen_log,
                           [character |-> block.character,
                            in_cache |->
                                IF block.character \in DOMAIN voice_cache
                                THEN voice_cache[block.character] ELSE None,
                            embedded |-> block.traits.elevenlabs_voice_id,
                            voice_id |-> r.voice_id,
                            requested |-> r.requested])
              /\ files' = IF g.path # None THEN g.fs
                          ELSE IF write = "raise" THEN files
                          ELSE CreateMp3File(files, block.text,
                                             block.character, block.id)
    /\ UNCHANGED <<asmVars, concVars, renderVars, sanVars, playerVars,
                   genVars, sharedVars, descVars, first_run,
                   elevenlabs_client, elevenlabs_key, script,
                   character_voice_map, audio_files, returned, voice_log,
                   vpos, vpc>>

\* delete_all_custom_voices, lines 366-386, when the listing succeeds and
\* is not empty: line 384 empties the cache
DeleteAllCustomVoices ==
    /\ elevenlabs_client
    /\ inv_calls < MaxInvalidations
    /\ inv_calls' = inv_calls + 1
    /\ voice_cache' = EmptyMap
    /\ UNCHANGED <<asmVars, concVars, renderVars, sanVars, playerVars,
                   genVars, sharedVars, descVars, regen_log, first_run,
                   elevenlabs_client, elevenlabs_key, script,
                   character_voice_map, audio_files, returned, files,
                   requests, voice_log, vpos, vpc>>

InvNext ==
    \/ VoiceNext
    \/ vpc = "run" /\ RegenerateVoice
    \/ vpc = "run" /\ DeleteAllCustomVoices

SpecInvalidate == InvInit /\ [][InvNext]_vars

(***************************************************************************)
(* Claim about the session map of a run (under SpecInvalidate)             *)
(***************************************************************************)
\* no step takes a character out of the session map of the run or changes
\* the handle the map holds for it
SessionEntriesKept ==
    \A c \in DOMAIN character_voice_map :
        /\ c \in DOMAIN character_voice_map'
        /\ character_voice_map'[c] = character_voice_map[c]

\* C30: once a character has a handle in the session map of a run, the run
\* keeps that entry and every later resolution of the character in the run
\* returns that handle, whatever regenerate_voice, delete_all_custom_voices
\* or another request has done to the entry of the cache of the process.
C30_SessionHandleKept ==
    /\ [][SessionEntriesKept]_vars
    /\ [](\A j \in LogIndex :
            voice_log[j].in_session # None =>
                voice_log[j].voice_id = voice_log[j].in_session)

\* a character was resolved a second time in the run after its cache entry
\* had been replaced by another handle, and got its session handle
C30_Witness ==
    \E j \in LogIndex :
        /\ voice_log[j].in_session # None
        /\ voice_log[j].in_cache # None
        /\ voice_log[j].in_cache # voice_log[j].in_session
        /\ voice_log[j].voice_id = voice_log[j].in_session

\* the same after the cache entry had been removed
C30_WitnessRemoved ==
    \E j \in LogIndex :
        /\ voice_log[j].in_session # None
        /\ voice_log[j].in_cache = None
        /\ voice_log[j].traits.elevenlabs_voice_id = None
        /\ requests # <<>>
        /\ voice_log[j].voice_id = voice_log[j].in_session

(***************************************************************************)
(* SpecDescribe: calls of VoiceGenerator._build_voice_description          *)
(* (voice_generator.py lines 166-184) on traits and an emotion.            *)
(***************************************************************************)
\* the values of a trait field; None is the missing key, None or ''
AgeRanges == {None, "young"}

VoiceStyles == {None, "warm"}

Accents == {None, "British"}

DescEmotions == {None, "neutral", "angry", "sad"}

DescTraits ==
    { [age_range |-> a, gender |-> g, voice_style |-> v, accent |-> c,
       elevenlabs_voice_id |-> None] :
        a \in AgeRanges, g \in Genders, v \in VoiceStyles, c \in Accents }

DescInit ==
    /\ AsmIdle
    /\ VoiceIdle
    /\ ConcIdle
    /\ RenderIdle
    /\ first_run = <<>>
    /\ SanIdle
    /\ PlayerIdle
    /\ GenIdle
    /\ SharedIdle
    /\ InvIdle
    /\ desc_traits \in DescTraits
    /\ desc_emotion \in DescEmotions
    /\ desc_out = <<>>

\* one call of self._build_voice_description(desc_traits, desc_emotion)
Describe ==
    /\ desc_out = <<>>
    /\ desc_out' = <<BuildVoiceDescription(desc_traits, desc_emotion)>>
    /\ UNCHANGED <<asmVars, voiceVars, concVars, first_run, renderVars,
                   sanVars, playerVars, genVars, sharedVars, invVars,
                   desc_traits, desc_emotion>>

DescNext == Describe

SpecDescribe == DescInit /\ [][DescNext]_vars

(***************************************************************************)
(* Claim about _build_voice_description (under SpecDescribe)               *)
(***************************************************************************)
\* the present trait fields in the order age_range, gender, voice_style,
\* '<accent> accent'
TraitParts(traits) ==
    (IF traits.age_range # None THEN <<traits.age_range>> ELSE <<>>)
    \o (IF traits.gender # None THEN <<traits.gender>> ELSE <<>>)
    \o (IF traits.voice_style # None THEN <<traits.voice_style>> ELSE <<>>)
    \o (IF traits.accent # None THEN <<traits.accent \o " accent">> ELSE <<>>)

\* C31: the description is 'A ' + parts joined by ', ' + ' voice.', the
\* parts being the present trait fields in the fixed order, or the phrase
\* 'adult, neutral, clear' when none of the four is present, followed by
\* '<emotion> tone' when the emotion is given and not 'neutral'.
C31_VoiceDescription ==
    desc_out # <<>> =>
        LET present == TraitParts(desc_traits)
            stated == IF present = <<>> THEN <<"adult", "neutral", "clear">>
                      ELSE present
            tone == IF desc_emotion # None /\ desc_emotion # "neutral"
                    THEN <<desc_emotion \o " tone">> ELSE <<>>
        IN  desc_out[1] = "A " \o Join(stated \o tone) \o " voice."

(***************************************************************************)
(* Claim about regenerate_voice (under SpecInvalidate)                     *)
(***************************************************************************)
\* C33: a regenerate_voice call for a character whose voice was created
\* earlier in the process (the cache holds a handle for the character, the
\* collaborator is configured, the block names no handle of its own) sends
\* a fresh creation request and does not return the handle created before.
C33_RegenerateCreatesAnew ==
    \A i \in DOMAIN regen_log :
        LET e == regen_log[i] IN
        (elevenlabs_client /\ e.in_cache # None /\ e.embedded = None) =>
            /\ e.requested
            /\ e.voice_id # e.in_cache

(***************************************************************************)
(* Further claims about the player (under SpecPlayer)                      *)
(***************************************************************************)
\* C34: after Pause or Reset, and until the user presses Start or Next, a
\* timer callback does not run and move the current block index: no timer
\* armed before the pause is left to fire.
C34_PausedIndexHeld ==
    [][(held /\ last_event' = "timer") => currentBlock' = currentBlock]_vars

\* C35: the current block index is within 0..sceneBlocks.length in every
\* reachable state of the player, so that currentBlock / sceneBlocks.length
\* is at most 1.
C35_IndexInRange == currentBlock \in 0..scene_len

\* playback has stopped at the end of the timeline
Stopped ==
    /\ ~isPlaying
    /\ pending = {}
    /\ currentBlock = scene_len

\* the indexes 0 .. k-1 in order
FirstBlocks(k) == [i \in 1..k |-> i - 1]

\* C37: from the reset state, with the player not playing and only Next
\* pressed since, the blocks presented are those of the timeline in order
\* beginning with the first one, the last of them the current block, the
\* index never passes the last block and no timer is armed.
C37_ManualStepping ==
    (session = "stepping" /\ scene_len > 0) =>
        /\ ~isPlaying
        /\ pending = {}
        /\ currentBlock <= scene_len - 1
        /\ displayed = FirstBlocks(currentBlock + 1)

(***************************************************************************)
(* Claim about unattended playback (under SpecPlayerFair)                  *)
(***************************************************************************)
\* C36: from the reset state, after one Start and as long as the user
\* presses nothing else, playback comes to an end by itself: every block
\* has been presented once in timeline order, isPlaying is false, no timer
\* is pending and the current index is the number of blocks.
C36_PlaysToTheEnd ==
    (session = "started") ~>
        \/ session # "started"
        \/ Stopped /\ displayed = FirstBlocks(scene_len)

\* unattended playback of a timeline of several blocks has ended
C36_Witness ==
    /\ session = "started"
    /\ scene_len >= 2
    /\ Stopped
    /\ displayed = FirstBlocks(scene_len)

(***************************************************************************)
(* Further claims about the timeline assembler (under SpecAsm)             *)
(***************************************************************************)
\* C38: when the interleave loop exits, the action index is n and the
\* dialogue index is m, so the two remaining-items loops append nothing and
\* the returned timeline has 1 + m + n blocks.
C38_LoopConsumesBoth ==
    /\ (asm_pc = "loop" /\ loop_i = LoopRange) =>
          /\ action_index = Len(actions)
          /\ dialogue_index = Len(dialogue)
          /\ Leftover(structured_script, action_index, dialogue_index)
                = structured_script
    /\ asm_pc = "done" =>
          Len(structured_script) = 1 + Len(dialogue) + Len(actions)

\* the loop has exited with more actions than dialogue lines
C38_Witness ==
    /\ asm_pc = "loop"
    /\ loop_i = LoopRange
    /\ Len(dialogue) = 1
    /\ Len(actions) = 3
    /\ action_index = 3

\* the number of dialogue blocks among the first p blocks of the timeline
DialoguesBefore(p) ==
    Cardinality({q \in 1..(p - 1) : structured_script[q].type = "dialogue"})

\* the position of the k-th action (from 0) in the timeline
ActionPositions(k) ==
    {p \in 1..Len(structured_script) :
        /\ structured_script[p].type = "action"
        /\ structured_script[p].tag = k}

\* C39: in the returned timeline the k-th action (from 0), for every k < n,
\* is preceded by exactly min(m, 2k) dialogue blocks: A0 D0 D1 A1 D2 D3 A2
\* and so on while both streams last.
C39_TwoDialoguesPerAction ==
    asm_pc = "done" =>
        \A k \in 0..(Len(actions) - 1) :
            /\ ActionPositions(k) # {}
            /\ \A p \in ActionPositions(k) :
                  DialoguesBefore(p) = Min(Len(dialogue), 2 * k)

\* a timeline of three actions and two dialogue lines has been returned
C39_Witness ==
    /\ asm_pc = "done"
    /\ Len(dialogue) = 2
    /\ Len(actions) = 3

(***************************************************************************)
(* Claim about the default handle (under SpecVoice)                        *)
(***************************************************************************)
\* the resolution e found no handle and got none created: the collaborator
\* is absent, or its creation request failed
GotDefault(e) ==
    /\ e.in_session = None
    /\ e.traits.elevenlabs_voice_id = None
    /\ e.in_cache = None
    /\ ~elevenlabs_client \/ (e.requested /\ e.created = None)

\* the step resolves a voice for a block and the resolution gets the default
DefaultStep ==
    /\ Len(voice_log') = Len(voice_log) + 1
    /\ GotDefault(voice_log'[Len(voice_log')])

\* entry j is the next resolution of the character of entry i
NextResolution(i, j) ==
    /\ i < j
    /\ voice_log[i].character = voice_log[j].character
    /\ \A k \in (i + 1)..(j - 1) :
          voice_log[k].character # voice_log[i].character

====
